---------------------------- MODULE Spec2Model ----------------------------
(***************************************************************************)
(* A model of e2sm: the .env codec, the flag validators, the config merge  *)
(* and loader, and the command handlers (set, get, pull, delete, init)     *)
(* that sit between the user and the `aws secretsmanager` command line.    *)
(*                                                                         *)
(* Text that the code inspects character by character (.env content, flag  *)
(* names, the --recovery-days value) is a sequence of one-character        *)
(* strings; text that the code only passes along is a TLA+ string.         *)
(***************************************************************************)
EXTENDS Integers, Sequences, FiniteSets, TLC

VARIABLES
    \* parseEnvContent / jsonToEnv applied to a text
    content, parsed, serialized, reparsed, envPc,
    \* mergeWithConfig applied to a pair of records
    cliValues, cfgRecord, mergeResult, mergePc,
    \* validateUnknownFlags applied to a token list and a schema
    ufTokens, ufArgs, ufResult, ufPc,
    \* validateNameTemplateConflict applied to a flag record
    ncFlags, ncResult, ncPc,
    \* loadConfig applied to a file system (fs is also the file system of
    \* a command run)
    fs, loaded, loadPc,
    \* a command run: what the user and the machine give it,
    cmd, tokens, values, rdFlag, envFile, outputExists,
    \* where it is and how it ended,
    pc, exitStatus, exitReason, cancelled, steps,
    \* what it did to the outside,
    awsCalls, shown, writes,
    \* and the handler's variables
    config, merged, loc,
    \* toKebabCase applied to a text
    kcStr, kcResult, kcPc,
    \* formatJson applied to a value at an indent
    fjObj, fjIndent, fjResult, fjPc,
    \* exec: the spawned process, the text gathered from its streams, the
    \* chunks it has emitted, and the promise
    procState, execStdout, execStderr, emitted, promise, settles

envVars   == <<content, parsed, serialized, reparsed, envPc>>
mergeVars == <<cliValues, cfgRecord, mergeResult, mergePc>>
ufVars    == <<ufTokens, ufArgs, ufResult, ufPc>>
ncVars    == <<ncFlags, ncResult, ncPc>>
loadVars  == <<loaded, loadPc>>
inputVars == <<cmd, tokens, values, rdFlag, envFile, outputExists>>
runVars   == <<pc, exitStatus, exitReason, cancelled, steps,
               awsCalls, shown, writes, config, merged, loc>>
cmdVars   == <<inputVars, runVars>>
kcVars    == <<kcStr, kcResult, kcPc>>
fjVars    == <<fjObj, fjIndent, fjResult, fjPc>>
execVars  == <<procState, execStdout, execStderr, emitted, promise, settles>>
libVars   == <<kcVars, fjVars, execVars>>

vars == <<envVars, mergeVars, ufVars, ncVars, fs, loadVars, cmdVars, libVars>>

(***************************************************************************)
(* JavaScript values that are not strings.                                 *)
(***************************************************************************)
Undefined == "<undefined>"
Null      == "<null>"

\* Booleans are kept as strings of their own, so that every flag and config
\* value of the model is a string and any two can be compared.
TrueV  == "<true>"
FalseV == "<false>"

\* JavaScript truthiness: undefined, null, false and the empty string are
\* falsy.
Truthy(v) == v \notin {Undefined, Null, FalseV, ""}

(***************************************************************************)
(* String primitives, on sequences of characters.                          *)
(***************************************************************************)
\* The white space String.prototype.trim removes (the characters of it that
\* the model's alphabets hold).
WhiteSpace == {" ", "\t", "\r", "\n"}

RECURSIVE TrimStart(_)
TrimStart(s) ==
    IF s # <<>> /\ Head(s) \in WhiteSpace THEN TrimStart(Tail(s)) ELSE s

RECURSIVE TrimEnd(_)
TrimEnd(s) ==
    IF s # <<>> /\ s[Len(s)] \in WhiteSpace
    THEN TrimEnd(SubSeq(s, 1, Len(s) - 1))
    ELSE s

Trim(s) == TrimEnd(TrimStart(s))

\* s.indexOf(c): the 0-based index of the first c in s, -1 when there is none.
IndexOf(s, c) ==
    IF \E i \in 1..Len(s) : s[i] = c
    THEN (CHOOSE i \in 1..Len(s) : s[i] = c /\ \A j \in 1..(i - 1) : s[j] # c) - 1
    ELSE -1

\* s.slice(start, end) with 0-based indices, end exclusive, negative indices
\* counted from the end.
Slice(s, start, end) ==
    LET n    == Len(s)
        from == IF start < 0 THEN (IF n + start < 0 THEN 0 ELSE n + start)
                ELSE (IF start > n THEN n ELSE start)
        to   == IF end < 0 THEN (IF n + end < 0 THEN 0 ELSE n + end)
                ELSE (IF end > n THEN n ELSE end)
    IN  SubSeq(s, from + 1, to)

\* s.slice(start)
SliceFrom(s, start) == Slice(s, start, Len(s))

StartsWith(s, prefix) ==
    Len(s) >= Len(prefix) /\ SubSeq(s, 1, Len(prefix)) = prefix

EndsWith(s, suffix) ==
    Len(s) >= Len(suffix) /\ SubSeq(s, Len(s) - Len(suffix) + 1, Len(s)) = suffix

\* s.split("\n"): the pieces between line feeds; always at least one piece.
RECURSIVE Split(_, _)
Split(s, sep) ==
    LET i == IndexOf(s, sep)
    IN  IF i = -1 THEN <<s>>
        ELSE <<Slice(s, 0, i)>> \o Split(SliceFrom(s, i + 1), sep)

\* parts.join(sep), for sequences of character sequences.
RECURSIVE Join(_, _)
Join(parts, sep) ==
    IF parts = <<>> THEN <<>>
    ELSE IF Len(parts) = 1 THEN parts[1]
    ELSE parts[1] \o sep \o Join(Tail(parts), sep)

(***************************************************************************)
(* A JavaScript object with string keys: its entries in the order the      *)
(* properties were created.  Object.entries lists the keys that are array  *)
(* indices first, in ascending numeric order, then the others in creation  *)
(* order.                                                                  *)
(***************************************************************************)
Digits == {"0", "1", "2", "3", "4", "5", "6", "7", "8", "9"}

DigitValue(c) ==
    CASE c = "0" -> 0 [] c = "1" -> 1 [] c = "2" -> 2 [] c = "3" -> 3
      [] c = "4" -> 4 [] c = "5" -> 5 [] c = "6" -> 6 [] c = "7" -> 7
      [] c = "8" -> 8 [] c = "9" -> 9

RECURSIVE DecimalValue(_)
DecimalValue(s) ==
    IF s = <<>> THEN 0
    ELSE 10 * DecimalValue(SubSeq(s, 1, Len(s) - 1)) + DigitValue(s[Len(s)])

\* A canonical numeric string below 2^32 - 1: an integer-indexed property.
IsArrayIndex(key) ==
    /\ Len(key) \in 1..9
    /\ \A i \in 1..Len(key) : key[i] \in Digits
    /\ (Len(key) > 1 => key[1] # "0")

HasKey(obj, key) == \E i \in 1..Len(obj) : obj[i].key = key

\* An assignment that leaves an existing property as it is.
ObjSetKeepFirst(obj, key, value) ==
    IF HasKey(obj, key) THEN obj
    ELSE Append(obj, [key |-> key, value |-> value])

\* obj[key] = value: an existing property keeps its place, a new one is
\* created last.
ObjSet(obj, key, value) ==
    IF HasKey(obj, key)
    THEN [i \in 1..Len(obj) |->
            IF obj[i].key = key THEN [key |-> key, value |-> value] ELSE obj[i]]
    ELSE Append(obj, [key |-> key, value |-> value])

RECURSIVE SortedIndexEntries(_, _)
SortedIndexEntries(obj, left) ==
    IF left = {} THEN <<>>
    ELSE LET m == CHOOSE i \in left : \A j \in left :
                      DecimalValue(obj[i].key) <= DecimalValue(obj[j].key)
         IN  <<obj[m]>> \o SortedIndexEntries(obj, left \ {m})

\* Object.entries(obj)
ObjectEntries(obj) ==
    LET idx  == {i \in 1..Len(obj) : IsArrayIndex(obj[i].key)}
        rest == SelectSeq(obj, LAMBDA e : ~IsArrayIndex(e.key))
    IN  SortedIndexEntries(obj, idx) \o rest

\* The object as a key/value mapping, order left out.
AsMapping(obj) == {<<obj[i].key, obj[i].value>> : i \in 1..Len(obj)}

(***************************************************************************)
(* parseEnvContent (src/src/lib.ts 202-243)                                *)
(***************************************************************************)
\* A loop that skips empty lines only.
SkipOnlyEmpty(trimmed) == trimmed = <<>>

\* Skip empty lines and comments
SkippedLine(trimmed) == trimmed = <<>> \/ StartsWith(trimmed, <<"#">>)

\* The index of the last "=" of the line.
LastEqualIndex(trimmed) ==
    IF \E i \in 1..Len(trimmed) : trimmed[i] = "="
    THEN (CHOOSE i \in 1..Len(trimmed) :
            trimmed[i] = "=" /\ \A j \in (i + 1)..Len(trimmed) : trimmed[j] # "=") - 1
    ELSE -1

\* const equalIndex = trimmed.indexOf("=");
EqualIndex(trimmed) == IndexOf(trimmed, "=")

\* An unquoted value that keeps its inline comment.
KeepComment(value) == value

\* Remove inline comment for unquoted values
StripComment(value) ==
    LET commentIndex == IndexOf(value, "#")
    IN  IF commentIndex # -1 THEN Trim(Slice(value, 0, commentIndex)) ELSE value

\* One turn of the loop over content.split("\n"): the result after `line`.
ParseLine(result, line) ==
    LET trimmed == Trim(line)
    IN  IF SkippedLine(trimmed) THEN result
        ELSE
        LET equalIndex == EqualIndex(trimmed)
        IN  IF equalIndex = -1 THEN result
            ELSE
            LET key      == Trim(Slice(trimmed, 0, equalIndex))
                value    == Trim(SliceFrom(trimmed, equalIndex + 1))
                isQuoted == \/ StartsWith(value, <<"\"">>) /\ EndsWith(value, <<"\"">>)
                            \/ StartsWith(value, <<"'">>) /\ EndsWith(value, <<"'">>)
                final    == IF isQuoted THEN Slice(value, 1, -1)
                            ELSE StripComment(value)
            IN  IF key # <<>> THEN ObjSet(result, key, final) ELSE result

RECURSIVE ParseLines(_, _)
ParseLines(result, lines) ==
    IF lines = <<>> THEN result
    ELSE ParseLines(ParseLine(result, Head(lines)), Tail(lines))

parseEnvContent(text) == ParseLines(<<>>, Split(text, "\n"))

(***************************************************************************)
(* jsonToEnv (src/src/lib.ts 391-398)                                      *)
(***************************************************************************)
\* value.replace(/"/g, '\\"')
RECURSIVE EscapeQuotes(_)
EscapeQuotes(value) ==
    IF value = <<>> THEN <<>>
    ELSE (IF Head(value) = "\"" THEN <<"\\", "\"">> ELSE <<Head(value)>>)
         \o EscapeQuotes(Tail(value))

\* An entry whose value is written as it is.
EnvLineUnescaped(e) == e.key \o <<"=", "\"">> \o e.value \o <<"\"">>

EnvLine(e) == e.key \o <<"=", "\"">> \o EscapeQuotes(e.value) \o <<"\"">>

jsonToEnv(data) ==
    LET entries == ObjectEntries(data)
    IN  Join([i \in 1..Len(entries) |-> EnvLine(entries[i])], <<"\n">>)

(***************************************************************************)
(* The codec applied to every text over EnvAlphabet of at most MaxLen      *)
(* characters: parse, serialize, parse again.                              *)
(***************************************************************************)
MaxLen == 5

EnvAlphabet == {"A", "1", "=", "\"", "'", "#", " ", "\n"}

EnvTexts == UNION {[1..n -> EnvAlphabet] : n \in 0..MaxLen}

NotRun == <<[key |-> <<"?">>, value |-> <<"not run">>]>>

InitEnv ==
    /\ content \in EnvTexts
    /\ parsed = NotRun
    /\ serialized = <<>>
    /\ reparsed = NotRun
    /\ envPc = "parse"

IdleEnv ==
    /\ content = <<>>
    /\ parsed = NotRun
    /\ serialized = <<>>
    /\ reparsed = NotRun
    /\ envPc = "idle"

Parse ==
    /\ envPc = "parse"
    /\ parsed' = parseEnvContent(content)
    /\ envPc' = "serialize"
    /\ UNCHANGED <<content, serialized, reparsed>>
    /\ UNCHANGED <<mergeVars, ufVars, ncVars, fs, loadVars, cmdVars, libVars>>

Serialize ==
    /\ envPc = "serialize"
    /\ serialized' = jsonToEnv(parsed)
    /\ envPc' = "reparse"
    /\ UNCHANGED <<content, parsed, reparsed>>
    /\ UNCHANGED <<mergeVars, ufVars, ncVars, fs, loadVars, cmdVars, libVars>>

Reparse ==
    /\ envPc = "reparse"
    /\ reparsed' = parseEnvContent(serialized)
    /\ envPc' = "done"
    /\ UNCHANGED <<content, parsed, serialized>>
    /\ UNCHANGED <<mergeVars, ufVars, ncVars, fs, loadVars, cmdVars, libVars>>

(***************************************************************************)
(* Text the code passes along, as TLA+ strings.                            *)
(***************************************************************************)
\* The characters of a character sequence, as one string.
RECURSIVE ToStr(_)
ToStr(s) == IF s = <<>> THEN "" ELSE Head(s) \o ToStr(Tail(s))

\* parts.join(sep), for sequences of strings.
RECURSIVE JoinStr(_, _)
JoinStr(parts, sep) ==
    IF parts = <<>> THEN ""
    ELSE IF Len(parts) = 1 THEN parts[1]
    ELSE parts[1] \o sep \o JoinStr(Tail(parts), sep)

(***************************************************************************)
(* mergeWithConfig (src/src/lib/config.ts 59-64).  A record is a function  *)
(* from the fields it has to their values; a field may be present with     *)
(* the value undefined.                                                    *)
(***************************************************************************)
E2smFields ==
    {"template", "application", "stage", "profile", "region", "input",
     "output", "name"}

EmptyConfig == [f \in {} |-> Undefined]

\* A merge that keeps a CLI value only when it is truthy.
mergeTruthyOnly(cli, cfg) ==
    LET kept == {f \in DOMAIN cli : Truthy(cli[f])}
    IN  [f \in (DOMAIN cfg) \cup kept |->
            IF f \in kept THEN cli[f] ELSE cfg[f]]

mergeWithConfig(cli, cfg) ==
    LET kept == {f \in DOMAIN cli : cli[f] # Undefined}
    IN  [f \in (DOMAIN cfg) \cup kept |->
            IF f \in kept THEN cli[f] ELSE cfg[f]]

\* The inputs of the merge: three of the fields, a boolean one and two
\* string ones, each absent or present with one of its values.
MergeFields == {"template", "application", "profile"}

CliValuesOf(f) ==
    IF f = "template" THEN {Undefined, FalseV, TrueV}
    ELSE IF f = "application" THEN {Undefined, "", "cli-app"}
    ELSE {Undefined, "", "cli-profile"}

ConfigValuesOf(f) ==
    IF f = "template" THEN {FalseV, TrueV}
    ELSE IF f = "application" THEN {"", "config-app"}
    ELSE {"config-profile", "cli-profile"}

AllValues == UNION {CliValuesOf(f) \cup ConfigValuesOf(f) : f \in MergeFields}

CliRecords ==
    UNION {{r \in [D -> AllValues] : \A f \in D : r[f] \in CliValuesOf(f)} :
           D \in SUBSET MergeFields}

ConfigRecords ==
    UNION {{r \in [D -> AllValues] : \A f \in D : r[f] \in ConfigValuesOf(f)} :
           D \in SUBSET MergeFields}

InitMerge ==
    /\ cliValues \in CliRecords
    /\ cfgRecord \in ConfigRecords
    /\ mergeResult = EmptyConfig
    /\ mergePc = "merge"

IdleMerge ==
    /\ cliValues = EmptyConfig
    /\ cfgRecord = EmptyConfig
    /\ mergeResult = EmptyConfig
    /\ mergePc = "idle"

Merge ==
    /\ mergePc = "merge"
    /\ mergeResult' = mergeWithConfig(cliValues, cfgRecord)
    /\ mergePc' = "done"
    /\ UNCHANGED <<cliValues, cfgRecord>>
    /\ UNCHANGED <<envVars, ufVars, ncVars, fs, loadVars, cmdVars, libVars>>

(***************************************************************************)
(* toKebabCase and validateUnknownFlags (src/src/lib.ts 126-170)           *)
(***************************************************************************)
LowerLetters ==
    <<"a", "b", "c", "d", "e", "f", "g", "h", "i", "j", "k", "l", "m",
      "n", "o", "p", "q", "r", "s", "t", "u", "v", "w", "x", "y", "z">>

UpperLetters ==
    <<"A", "B", "C", "D", "E", "F", "G", "H", "I", "J", "K", "L", "M",
      "N", "O", "P", "Q", "R", "S", "T", "U", "V", "W", "X", "Y", "Z">>

IsLower(c) == \E i \in 1..Len(LowerLetters) : LowerLetters[i] = c
IsUpper(c) == \E i \in 1..Len(UpperLetters) : UpperLetters[i] = c

ToLowerChar(c) ==
    IF IsUpper(c)
    THEN LowerLetters[CHOOSE i \in 1..Len(UpperLetters) : UpperLetters[i] = c]
    ELSE c

\* str.toLowerCase()
ToLowerCase(s) == [i \in 1..Len(s) |-> ToLowerChar(s[i])]

\* str.replace(/([a-z])([A-Z])/g, "$1-$2"): matches are taken left to
\* right and do not overlap.
RECURSIVE HyphenateCamel(_)
HyphenateCamel(s) ==
    IF Len(s) < 2 THEN s
    ELSE IF IsLower(s[1]) /\ IsUpper(s[2])
         THEN <<s[1], "-", s[2]>> \o HyphenateCamel(SubSeq(s, 3, Len(s)))
         ELSE <<s[1]>> \o HyphenateCamel(Tail(s))

\* A conversion that lowercases and inserts nothing.
LowerOnly(str) == ToLowerCase(str)

toKebabCase(str) == ToLowerCase(HyphenateCamel(str))

\* A token or a schema entry without the optional field.
NoName == <<Undefined>>

TruthyText(s) == s # <<>> /\ s # NoName

BuiltinOptions ==
    {<<"h", "e", "l", "p">>, <<"h">>,
     <<"v", "e", "r", "s", "i", "o", "n">>, <<"v">>}

\* The known set without the kebab-case forms.
knownOptionsNoKebab(args) ==
    BuiltinOptions
      \cup {args[i].key : i \in 1..Len(args)}
      \cup {args[i].short : i \in {j \in 1..Len(args) : TruthyText(args[j].short)}}

\* The set built by the first loop: args is the sequence of Object.entries.
knownOptions(args) ==
    BuiltinOptions
      \cup {args[i].key : i \in 1..Len(args)}
      \cup {toKebabCase(args[i].key) : i \in 1..Len(args)}
      \cup {args[i].short : i \in {j \in 1..Len(args) : TruthyText(args[j].short)}}

RECURSIVE CheckTokens(_, _)
CheckTokens(toks, known) ==
    IF toks = <<>> THEN Null
    ELSE LET token == Head(toks)
             name  == IF StartsWith(token.name, <<"n", "o", "-">>)
                      THEN SliceFrom(token.name, 3)
                      ELSE token.name
         IN  IF token.kind = "option" /\ TruthyText(token.name) /\ name \notin known
             THEN "Unknown option: --" \o ToStr(token.name)
             ELSE CheckTokens(Tail(toks), known)

validateUnknownFlags(toks, args) == CheckTokens(toks, knownOptions(args))

\* The inputs: the schemas of the set and delete commands cut to two
\* entries, a schema whose entry has no short alias, and token lists of at
\* most MaxTokens tokens.
MaxTokens == 2

S_dryRun   == <<"d", "r", "y", "R", "u", "n">>
S_dry_run  == <<"d", "r", "y", "-", "r", "u", "n">>
S_profile  == <<"p", "r", "o", "f", "i", "l", "e">>
S_recoveryDays ==
    <<"r", "e", "c", "o", "v", "e", "r", "y", "D", "a", "y", "s">>
S_recovery_days ==
    <<"r", "e", "c", "o", "v", "e", "r", "y", "-", "d", "a", "y", "s">>
S_force    == <<"f", "o", "r", "c", "e">>
S_unknown  == <<"u", "n", "k", "n", "o", "w", "n">>
S_no       == <<"n", "o", "-">>
S_name == <<"n", "a", "m", "e">>
S_input == <<"i", "n", "p", "u", "t">>
S_output == <<"o", "u", "t", "p", "u", "t">>
S_template == <<"t", "e", "m", "p", "l", "a", "t", "e">>
S_application == <<"a", "p", "p", "l", "i", "c", "a", "t", "i", "o", "n">>
S_stage == <<"s", "t", "a", "g", "e">>
S_region == <<"r", "e", "g", "i", "o", "n">>

Schemas ==
    {<<[key |-> S_dryRun, short |-> <<"d">>],
       [key |-> S_profile, short |-> <<"p">>]>>,
     <<[key |-> S_recoveryDays, short |-> <<"d">>],
       [key |-> S_force, short |-> <<"f">>]>>,
     <<[key |-> S_force, short |-> NoName]>>}

TokenNames ==
    {S_dryRun, S_dry_run, <<"d">>, S_no \o S_dry_run, S_no \o S_dryRun,
     S_recovery_days, S_force, <<"f">>, S_unknown, S_no \o S_unknown,
     <<"h">>, S_no, S_no \o S_no \o S_force, <<"x">>}

Tokens ==
    {[kind |-> "option", name |-> n] : n \in TokenNames}
      \cup {[kind |-> "positional", name |-> NoName]}

InitUnknown ==
    /\ ufTokens \in UNION {[1..n -> Tokens] : n \in 0..MaxTokens}
    /\ ufArgs \in Schemas
    /\ ufResult = "<not run>"
    /\ ufPc = "validate"

IdleUnknown ==
    /\ ufTokens = <<>>
    /\ ufArgs = <<>>
    /\ ufResult = "<not run>"
    /\ ufPc = "idle"

ValidateUnknownFlags ==
    /\ ufPc = "validate"
    /\ ufResult' = validateUnknownFlags(ufTokens, ufArgs)
    /\ ufPc' = "done"
    /\ UNCHANGED <<ufTokens, ufArgs>>
    /\ UNCHANGED <<envVars, mergeVars, ncVars, fs, loadVars, cmdVars, libVars>>

(***************************************************************************)
(* isTemplateMode and validateNameTemplateConflict                         *)
(* (src/src/lib.ts 175-200).  A flag that is absent reads as undefined.    *)
(***************************************************************************)
Get(rec, f) == IF f \in DOMAIN rec THEN rec[f] ELSE Undefined

\* Template mode only by the template switch.
templateSwitchOnly(flags) == Truthy(Get(flags, "template"))

isTemplateMode(flags) ==
    \/ Truthy(Get(flags, "template"))
    \/ Truthy(Get(flags, "application"))
    \/ Truthy(Get(flags, "stage"))

\* A check that names all three flags whichever of them are set.
conflictListingAll(flags) ==
    IF Truthy(Get(flags, "name")) /\ isTemplateMode(flags)
    THEN "Cannot use --name with --template, --application, --stage"
    ELSE Null

validateNameTemplateConflict(flags) ==
    IF Truthy(Get(flags, "name")) /\ isTemplateMode(flags)
    THEN LET conflicting ==
                 (IF Truthy(Get(flags, "template")) THEN <<"--template">> ELSE <<>>)
                 \o (IF Truthy(Get(flags, "application")) THEN <<"--application">> ELSE <<>>)
                 \o (IF Truthy(Get(flags, "stage")) THEN <<"--stage">> ELSE <<>>)
         IN  "Cannot use --name with " \o JoinStr(conflicting, ", ")
    ELSE Null

ConflictFlags ==
    [name : {Undefined, "", "s"},
     template : {Undefined, FalseV, TrueV},
     application : {Undefined, "", "a"},
     stage : {Undefined, "", "p"}]

InitConflict ==
    /\ ncFlags \in ConflictFlags
    /\ ncResult = "<not run>"
    /\ ncPc = "validate"

IdleConflict ==
    /\ ncFlags = EmptyConfig
    /\ ncResult = "<not run>"
    /\ ncPc = "idle"

ValidateNameTemplateConflict ==
    /\ ncPc = "validate"
    /\ ncResult' = validateNameTemplateConflict(ncFlags)
    /\ ncPc' = "done"
    /\ UNCHANGED ncFlags
    /\ UNCHANGED <<envVars, mergeVars, ufVars, fs, loadVars, cmdVars, libVars>>

(***************************************************************************)
(* loadConfig (src/src/lib/config.ts 19-54).  A candidate path holds no    *)
(* readable file, or a file whose jsonc parse gives a value and a list of  *)
(* errors.                                                                 *)
(***************************************************************************)
Candidates ==
    <<"cwd/.e2smrc.jsonc", "cwd/.e2smrc.json",
      "home/.e2smrc.jsonc", "home/.e2smrc.json">>

NoFile == [exists |-> FALSE, value |-> EmptyConfig, errors |-> <<>>]

FileOf(value, errors) == [exists |-> TRUE, value |-> value, errors |-> errors]

\* What a candidate may hold: nothing, one of two configs that parse
\* cleanly, or a text with parse errors (from which jsonc-parser still
\* recovers a partial value).
FileStates ==
    {NoFile,
     FileOf([input |-> ".env.a"], <<>>),
     FileOf([profile |-> "b"], <<>>),
     FileOf([input |-> ".env.partial"], <<"InvalidSymbol", "ValueExpected">>)}

\* A load that says nothing about a file it skips.
NoWarnings(filePath, errors) == <<>>

\* The two console.warn lines for a file with parse errors.
ParseWarnings(filePath, errors) ==
    <<"Warning: Parse error in " \o filePath \o ": " \o JoinStr(errors, ", "),
      "Skipping this config file and trying next candidate...">>

RECURSIVE LoadFrom(_, _, _, _)
LoadFrom(files, candidates, warnings, attempted) ==
    IF candidates = <<>>
    THEN [config |-> EmptyConfig, warnings |-> warnings,
          attempted |-> attempted, threw |-> FALSE]
    ELSE LET filePath == Head(candidates)
             file     == files[filePath]
             tried    == Append(attempted, filePath)
         IN  IF ~file.exists
             THEN LoadFrom(files, Tail(candidates), warnings, tried)
             ELSE IF Len(file.errors) > 0
             THEN LoadFrom(files, Tail(candidates),
                           warnings \o ParseWarnings(filePath, file.errors),
                           tried)
             ELSE [config |-> file.value, warnings |-> warnings,
                   attempted |-> tried, threw |-> FALSE]

\* A load that tries .json before .jsonc in each directory.
loadConfigJsonFirst(files) ==
    LoadFrom(files,
             <<Candidates[2], Candidates[1], Candidates[4], Candidates[3]>>,
             <<>>, <<>>)

loadConfig(files) == LoadFrom(files, Candidates, <<>>, <<>>)

NotLoaded ==
    [config |-> EmptyConfig, warnings |-> <<>>, attempted |-> <<>>, threw |-> FALSE]

CandidateSet == {Candidates[i] : i \in 1..Len(Candidates)}

InitLoad ==
    /\ fs \in [CandidateSet -> FileStates]
    /\ loaded = NotLoaded
    /\ loadPc = "load"

IdleLoad ==
    /\ loaded = NotLoaded
    /\ loadPc = "idle"

IdleFs == fs = [c \in CandidateSet |-> NoFile]

LoadConfig ==
    /\ loadPc = "load"
    /\ loaded' = loadConfig(fs)
    /\ loadPc' = "done"
    /\ UNCHANGED fs
    /\ UNCHANGED <<envVars, mergeVars, ufVars, ncVars, cmdVars, libVars>>


(***************************************************************************)
(* The command handlers.  A run is one invocation of one command: `values` *)
(* is ctx.values (a flag the user did not give is absent), `rdFlag` is     *)
(* ctx.values.recoveryDays (its characters are inspected), `tokens` is     *)
(* ctx.tokens.  Each action is the code between two awaits of a prompt or  *)
(* of an external command, with the answer it gets.                        *)
(***************************************************************************)
\* The option token the command line holds for a flag.
FlagToken(f) ==
    CASE f = "dryRun"       -> S_dry_run
      [] f = "recoveryDays" -> S_recovery_days
      [] f = "force"        -> S_force
      [] f = "profile"      -> S_profile
      [] f = "name"         -> S_name
      [] f = "input"        -> S_input
      [] f = "output"       -> S_output
      [] f = "template"     -> S_template
      [] f = "application"  -> S_application
      [] f = "stage"        -> S_stage

FlagOrder ==
    <<"dryRun", "input", "name", "template", "application", "stage",
      "output", "force", "recoveryDays">>

\* The args of each command's define({...}), as Object.entries lists them.
Arg(key, short) == [key |-> key, short |-> short]

ArgsOf(c) ==
    CASE c = "set" ->
           <<Arg(S_dryRun, <<"d">>), Arg(S_profile, <<"p">>), Arg(S_input, <<"i">>),
             Arg(S_name, <<"n">>), Arg(S_region, <<"r">>), Arg(S_template, <<"t">>),
             Arg(S_application, <<"a">>), Arg(S_stage, <<"s">>)>>
      [] c = "get" ->
           <<Arg(S_profile, <<"p">>), Arg(S_region, <<"r">>), Arg(S_name, <<"n">>)>>
      [] c = "pull" ->
           <<Arg(S_profile, <<"p">>), Arg(S_region, <<"r">>), Arg(S_name, <<"n">>),
             Arg(S_output, <<"o">>), Arg(S_force, <<"f">>)>>
      [] c = "delete" ->
           <<Arg(S_profile, <<"p">>), Arg(S_region, <<"r">>), Arg(S_name, <<"n">>),
             Arg(S_recoveryDays, <<"d">>), Arg(S_force, <<"f">>)>>
      [] c = "init" -> <<Arg(S_force, <<"f">>)>>

MIN_RECOVERY_DAYS == 7
MAX_RECOVERY_DAYS == 30

\* Number.parseInt(text, 10): leading white space, an optional sign, then
\* the longest run of digits; NaN when there is no digit.
RECURSIVE DigitPrefix(_)
DigitPrefix(s) ==
    IF s # <<>> /\ Head(s) \in Digits THEN <<Head(s)>> \o DigitPrefix(Tail(s))
    ELSE <<>>

ParseInt(text) ==
    LET t      == TrimStart(text)
        signed == t # <<>> /\ Head(t) \in {"-", "+"}
        digits == DigitPrefix(IF signed THEN Tail(t) ELSE t)
        n      == DecimalValue(digits)
    IN  [nan |-> digits = <<>>,
         n   |-> IF signed /\ Head(t) = "-" THEN 0 - n ELSE n]

\* The test of both the flag and the prompt's validate callback.
InvalidRecoveryDays(text) ==
    LET p == ParseInt(text)
    IN  p.nan \/ p.n < MIN_RECOVERY_DAYS \/ p.n > MAX_RECOVERY_DAYS

\* JSON.stringify of an object whose values are strings.
RECURSIVE JsonEscape(_)
JsonEscape(s) ==
    IF s = <<>> THEN <<>>
    ELSE (CASE Head(s) = "\"" -> <<"\\", "\"">>
            [] Head(s) = "\\" -> <<"\\", "\\">>
            [] Head(s) = "\n" -> <<"\\", "n">>
            [] OTHER -> <<Head(s)>>)
         \o JsonEscape(Tail(s))

JsonStringify(obj) ==
    LET entries == ObjectEntries(obj)
        item(e) == <<"\"">> \o JsonEscape(e.key) \o <<"\"", ":", "\"">>
                     \o JsonEscape(e.value) \o <<"\"">>
    IN  ToStr(<<"{">> \o Join([i \in 1..Len(entries) |-> item(entries[i])], <<",">>)
              \o <<"}">>)

\* generateEnvHeader (src/src/lib.ts 400-402)
generateEnvHeader(secretName) ==
    "# Generated by e2sm\n# Source: " \o secretName

Cancel == "<cancel>"

\* exitStatus while the process has not exited.
Running == 0 - 1

Msg(via, text) == [via |-> via, text |-> text]

\* The secret text of a run that has fetched none.
NoSecret == [raw |-> Undefined, isJson |-> FALSE, nonString |-> FALSE, value |-> <<>>]

NoLoc ==
    [envFilePath |-> Undefined, envData |-> <<>>, jsonString |-> Undefined,
     secretName |-> Undefined, application |-> Undefined,
     secrets |-> <<>>, outputPath |-> Undefined, recoveryDays |-> 0,
     describeExit |-> 0, confirmed |-> Undefined, secretString |-> NoSecret]

\* process.exit(code), or the return of the handler (code 0).
Exit(code, reason, msgs) ==
    /\ pc' = "exited"
    /\ exitStatus' = code
    /\ exitReason' = reason
    /\ shown' = shown \o msgs

Goto(label) ==
    /\ pc' = label
    /\ UNCHANGED <<exitStatus, exitReason>>

\* A cancellation that ends the process with an error status.
OnCancelExitOne == Exit(1, "cancelled", <<Msg("p.cancel", "Operation cancelled")>>)

\* if (isCancel(result)) { p.cancel("Operation cancelled"); process.exit(0); }
OnCancel == Exit(0, "cancelled", <<Msg("p.cancel", "Operation cancelled")>>)

\* A remote failure that is reported without the captured error text.
OnRemoteFailureNoText(stderr) ==
    Exit(1, "remote", <<Msg("p.cancel", "Error")>>)

\* if (result.exitCode !== 0) { spinner.stop(...); p.cancel(`Error: ${stderr}`);
\*                              process.exit(1); }
OnRemoteFailure(stderr) ==
    Exit(1, "remote", <<Msg("p.cancel", "Error: " \o stderr)>>)

\* What exec resolves with: exit code 0 and no error text, or a non-zero
\* code and the text the command wrote to stderr.
ExecResults ==
    {[exitCode |-> 0, stderr |-> ""]}
      \cup [exitCode : {1, 254}, stderr : {"AccessDenied", ""}]

\* One exec("aws", ["secretsmanager", op, ...]) and what it resolved with.
Call(op, secretId, payload, r) ==
    [op |-> op, secretId |-> secretId, payload |-> payload,
     profile |-> Get(merged, "profile"), region |-> Get(merged, "region"),
     exitCode |-> r.exitCode, stderr |-> r.stderr]

(***************************************************************************)
(* The runs the model starts from.                                         *)
(***************************************************************************)
Commands == {"set", "get", "pull", "delete", "init"}

FlagsOf(c) ==
    CASE c = "set" -> {"dryRun", "input", "name", "template", "application", "stage"}
      [] c = "get" -> {"name"}
      [] c = "pull" -> {"name", "output", "force"}
      [] c = "delete" -> {"name", "force"}
      [] c = "init" -> {"force"}

FlagValue(f) ==
    CASE f \in {"dryRun", "template", "force"} -> TrueV
      [] f = "input" -> ".env.in"
      [] f = "name" -> "cli-name"
      [] f = "application" -> "cli-app"
      [] f = "stage" -> "cli-stage"
      [] f = "output" -> ".env.out"

CmdValues(c) == {[f \in D |-> FlagValue(f)] : D \in SUBSET FlagsOf(c)}

\* --recovery-days: not given, given empty, below, at and above the limits,
\* not a number, and a number followed by other characters.
RecoveryDayTexts ==
    {NoName, <<>>, <<"5">>, <<"7">>, <<"3", "0">>, <<"3", "1">>,
     <<"a", "b", "c">>, <<"8", "x">>}

\* What the recovery-days prompt can return: its validate callback lets only
\* these through.
PromptDayTexts == {t \in RecoveryDayTexts \ {NoName} : ~InvalidRecoveryDays(t)}

TokensOf(vals, rd) ==
    LET given == SelectSeq(FlagOrder,
                   LAMBDA f : IF f = "recoveryDays" THEN rd # NoName
                              ELSE f \in DOMAIN vals)
    IN  [i \in 1..Len(given) |-> [kind |-> "option", name |-> FlagToken(given[i])]]

ExtraTokens ==
    {<<>>,
     <<[kind |-> "positional", name |-> NoName]>>,
     <<[kind |-> "option", name |-> <<"x">>]>>}

TemplateConfig ==
    [template |-> TrueV, application |-> "cfg-app", stage |-> "cfg-stage",
     input |-> ".env.cfg"]

NamedConfig ==
    [name |-> "cfg-name", output |-> ".env.cfg-out", profile |-> "cfg-profile",
     region |-> "cfg-region"]

\* The project's .e2smrc.jsonc is missing, holds one of two configs, or does
\* not parse; there is no other config file.
CmdFileSystems ==
    {[c \in CandidateSet |-> IF c = Candidates[1] THEN f ELSE NoFile] :
       f \in {NoFile, FileOf(TemplateConfig, <<>>), FileOf(NamedConfig, <<>>),
              FileOf(TemplateConfig, <<"InvalidSymbol">>)}}

\* The .env file at the input path: missing, only a comment, two entries.
EnvFiles ==
    {[exists |-> FALSE, text |-> <<>>],
     [exists |-> TRUE, text |-> <<"#", " ", "c">>],
     [exists |-> TRUE, text |-> <<"A", "=", "1", "\n", "B", "=", "'", "x", "'">>]}

InitCmd ==
    /\ cmd \in Commands
    /\ values \in CmdValues(cmd)
    /\ rdFlag \in (IF cmd = "delete" THEN RecoveryDayTexts ELSE {NoName})
    /\ tokens \in {TokensOf(values, rdFlag) \o extra : extra \in ExtraTokens}
    /\ fs \in CmdFileSystems
    /\ envFile \in (IF cmd = "set" THEN EnvFiles ELSE {[exists |-> FALSE, text |-> <<>>]})
    /\ outputExists \in (IF cmd = "pull" THEN BOOLEAN ELSE {FALSE})
    /\ pc = IF cmd = "init" THEN "validateUnknown" ELSE "loadConfig"
    /\ exitStatus = Running
    /\ exitReason = "none"
    /\ cancelled = FALSE
    /\ steps = <<>>
    /\ awsCalls = <<>>
    /\ shown = <<>>
    /\ writes = <<>>
    /\ config = EmptyConfig
    /\ merged = EmptyConfig
    /\ loc = NoLoc

IdleCmd ==
    /\ cmd = "idle"
    /\ values = EmptyConfig
    /\ rdFlag = NoName
    /\ tokens = <<>>
    /\ envFile = [exists |-> FALSE, text |-> <<>>]
    /\ outputExists = FALSE
    /\ pc = "idle"
    /\ exitStatus = Running
    /\ exitReason = "none"
    /\ cancelled = FALSE
    /\ steps = <<>>
    /\ awsCalls = <<>>
    /\ shown = <<>>
    /\ writes = <<>>
    /\ config = EmptyConfig
    /\ merged = EmptyConfig
    /\ loc = NoLoc

others == <<envVars, mergeVars, ufVars, ncVars, fs, loadVars, inputVars, libVars>>

(***************************************************************************)
(* The first steps of every handler: load the config (not in init), check  *)
(* the tokens, (in set) check --name against the template flags, merge.    *)
(***************************************************************************)
\* const config = await loadConfig();
RunLoadConfig ==
    /\ pc = "loadConfig"
    /\ LET r == loadConfig(fs)
       IN  /\ config' = r.config
           /\ shown' = shown \o
                 [i \in 1..Len(r.warnings) |-> Msg("console.warn", r.warnings[i])]
    /\ steps' = Append(steps, "loadConfig")
    /\ Goto("validateUnknown")
    /\ UNCHANGED <<cancelled, awsCalls, writes, merged, loc, others>>

\* validateUnknownFlags(ctx.tokens, ctx.args), console.error, process.exit(1)
RunValidateUnknown ==
    /\ pc = "validateUnknown"
    /\ steps' = Append(steps, "validateUnknownFlags")
    /\ LET unknownFlagError == validateUnknownFlags(tokens, ArgsOf(cmd))
       IN  IF unknownFlagError # Null
           THEN Exit(1, "unknown-flag", <<Msg("console.error", unknownFlagError)>>)
           ELSE /\ Goto(CASE cmd = "set" -> "validateConflict"
                          [] cmd = "init" -> "initCheck"
                          [] OTHER -> "merge")
                /\ UNCHANGED shown
    /\ UNCHANGED <<cancelled, awsCalls, writes, config, merged, loc, others>>

\* The merged record, were the check applied after the merge.
ConflictInputMerged == mergeWithConfig(values, config)

\* The record the set handler hands to validateNameTemplateConflict.
ConflictInput == values

\* validateNameTemplateConflict(ctx.values), console.error, process.exit(1)
SetValidateConflict ==
    /\ cmd = "set" /\ pc = "validateConflict"
    /\ steps' = Append(steps, "validateNameTemplateConflict")
    /\ LET conflictError == validateNameTemplateConflict(ConflictInput)
       IN  IF conflictError # Null
           THEN Exit(1, "conflict", <<Msg("console.error", conflictError)>>)
           ELSE Goto("merge") /\ UNCHANGED shown
    /\ UNCHANGED <<cancelled, awsCalls, writes, config, merged, loc, others>>

\* const merged = mergeWithConfig(ctx.values, config);
RunMerge ==
    /\ pc = "merge"
    /\ steps' = Append(steps, "mergeWithConfig")
    /\ merged' = mergeWithConfig(values, config)
    /\ Goto(IF cmd = "set" THEN "inputPath" ELSE "secretName")
    /\ UNCHANGED <<cancelled, awsCalls, shown, writes, config, loc, others>>

(***************************************************************************)
(* set (src/src/index.ts 89-292)                                           *)
(***************************************************************************)
\* 1. Get env file path (from flag or interactively)
SetInputPath ==
    /\ cmd = "set" /\ pc = "inputPath"
    /\ LET inputFlag == Get(merged, "input")
       IN  IF Truthy(inputFlag)
           THEN /\ loc' = [loc EXCEPT !.envFilePath = inputFlag]
                /\ Goto("readEnv")
                /\ UNCHANGED <<cancelled, shown>>
           ELSE \E result \in {Cancel, ".env.local"} :
                  IF result = Cancel
                  THEN cancelled' = TRUE /\ OnCancel /\ UNCHANGED loc
                  ELSE /\ loc' = [loc EXCEPT !.envFilePath = result]
                       /\ Goto("readEnv")
                       /\ UNCHANGED <<cancelled, shown>>
    /\ UNCHANGED <<steps, awsCalls, writes, config, merged, others>>

\* A handler that never takes the dry-run branch.
NeverDryRun == FALSE

\* A handler that goes on with an empty mapping.
NeverEmpty(envData) == FALSE

\* Object.keys(envData).length === 0
NoEntries(envData) == Len(envData) = 0

\* const isDryRun = ctx.values.dryRun; // dryRun is CLI-only
isDryRun == Truthy(Get(values, "dryRun"))

\* 2. Read and parse env file; 3. Dry-run mode: preview JSON
SetReadEnv ==
    /\ cmd = "set" /\ pc = "readEnv"
    /\ LET envData == parseEnvContent(envFile.text)
       IN  IF ~envFile.exists
           THEN /\ Exit(1, "file-not-found",
                        <<Msg("p.cancel", "File not found: " \o loc.envFilePath)>>)
                /\ UNCHANGED loc
           ELSE IF NoEntries(envData)
           THEN /\ Exit(1, "empty-env",
                        <<Msg("p.cancel", "No valid environment variables found in the file")>>)
                /\ UNCHANGED loc
           ELSE /\ loc' = [loc EXCEPT !.envData = envData,
                                      !.jsonString = JsonStringify(envData)]
                /\ IF isDryRun
                   THEN Exit(0, "dry-run",
                             <<Msg("p.log.info", "Dry-run mode: Previewing JSON output"),
                               Msg("console.log", "inspect(envData)"),
                               Msg("p.outro", "Dry-run complete")>>)
                   ELSE Goto("secretName") /\ UNCHANGED shown
    /\ UNCHANGED <<cancelled, steps, awsCalls, writes, config, merged, others>>

\* secretName = `${application}/${stage}` once both parts are known.
TemplateName(application, stage) == application \o "/" \o stage

\* 4. Get secret name: --name, else template mode, else the prompt.
SetSecretName ==
    /\ cmd = "set" /\ pc = "secretName"
    /\ LET nameFlag        == Get(values, "name")
           applicationFlag == Get(merged, "application")
           stageFlag       == Get(merged, "stage")
           useTemplateMode == isTemplateMode(merged)
       IN  IF Truthy(nameFlag)
           THEN loc' = [loc EXCEPT !.secretName = nameFlag] /\ Goto("describe")
           ELSE IF useTemplateMode
           THEN IF Truthy(applicationFlag)
                THEN IF Truthy(stageFlag)
                     THEN /\ loc' = [loc EXCEPT
                                !.application = applicationFlag,
                                !.secretName = TemplateName(applicationFlag, stageFlag)]
                          /\ Goto("describe")
                     ELSE /\ loc' = [loc EXCEPT !.application = applicationFlag]
                          /\ Goto("stagePrompt")
                ELSE UNCHANGED loc /\ Goto("applicationPrompt")
           ELSE UNCHANGED loc /\ Goto("namePrompt")
    /\ UNCHANGED <<cancelled, steps, awsCalls, shown, writes, config, merged, others>>

\* p.text("Enter the application name:")
SetApplicationPrompt ==
    /\ cmd = "set" /\ pc = "applicationPrompt"
    /\ \E result \in {Cancel, "my-app"} :
         IF result = Cancel
         THEN cancelled' = TRUE /\ OnCancel /\ UNCHANGED loc
         ELSE /\ UNCHANGED <<cancelled, shown>>
              /\ IF Truthy(Get(merged, "stage"))
                 THEN /\ loc' = [loc EXCEPT
                            !.application = result,
                            !.secretName = TemplateName(result, Get(merged, "stage"))]
                      /\ Goto("describe")
                 ELSE /\ loc' = [loc EXCEPT !.application = result]
                      /\ Goto("stagePrompt")
    /\ UNCHANGED <<steps, awsCalls, writes, config, merged, others>>

\* p.text("Enter the stage name:")
SetStagePrompt ==
    /\ cmd = "set" /\ pc = "stagePrompt"
    /\ \E result \in {Cancel, "dev"} :
         IF result = Cancel
         THEN cancelled' = TRUE /\ OnCancel /\ UNCHANGED loc
         ELSE /\ UNCHANGED <<cancelled, shown>>
              /\ loc' = [loc EXCEPT !.secretName = TemplateName(loc.application, result)]
              /\ Goto("describe")
    /\ UNCHANGED <<steps, awsCalls, writes, config, merged, others>>

\* p.text("Enter the secret name for AWS Secrets Manager:")
SetNamePrompt ==
    /\ cmd = "set" /\ pc = "namePrompt"
    /\ \E result \in {Cancel, "my-app/default"} :
         IF result = Cancel
         THEN cancelled' = TRUE /\ OnCancel /\ UNCHANGED loc
         ELSE /\ UNCHANGED <<cancelled, shown>>
              /\ loc' = [loc EXCEPT !.secretName = result]
              /\ Goto("describe")
    /\ UNCHANGED <<steps, awsCalls, writes, config, merged, others>>

\* A secret that is taken not to exist whatever describe-secret answered.
AlwaysCreate(describeResult) == "create"

\* if (describeResult.exitCode === 0) the secret exists and is updated,
\* else it is created.
AfterDescribe(describeResult) ==
    IF describeResult.exitCode = 0 THEN "put" ELSE "create"

\* 5. First, try to check if the secret already exists
SetDescribe ==
    /\ cmd = "set" /\ pc = "describe"
    /\ \E describeResult \in ExecResults :
         /\ awsCalls' = Append(awsCalls,
               Call("describe-secret", loc.secretName, "", describeResult))
         /\ loc' = [loc EXCEPT !.describeExit = describeResult.exitCode]
         /\ Goto(AfterDescribe(describeResult))
    /\ UNCHANGED <<cancelled, steps, shown, writes, config, merged, others>>

\* Secret exists, update it
SetPut ==
    /\ cmd = "set" /\ pc = "put"
    /\ \E updateResult \in ExecResults :
         /\ awsCalls' = Append(awsCalls,
               Call("put-secret-value", loc.secretName, loc.jsonString, updateResult))
         /\ IF updateResult.exitCode # 0
            THEN OnRemoteFailure(updateResult.stderr)
            ELSE Exit(0, "done",
                   <<Msg("spinner.stop", "Secret updated successfully"),
                     Msg("p.outro", "Secret '" \o loc.secretName
                                      \o "' has been saved to AWS Secrets Manager")>>)
    /\ UNCHANGED <<cancelled, steps, writes, config, merged, loc, others>>

\* Secret doesn't exist, create it
SetCreate ==
    /\ cmd = "set" /\ pc = "create"
    /\ \E createResult \in ExecResults :
         /\ awsCalls' = Append(awsCalls,
               Call("create-secret", loc.secretName, loc.jsonString, createResult))
         /\ IF createResult.exitCode # 0
            THEN OnRemoteFailure(createResult.stderr)
            ELSE Exit(0, "done",
                   <<Msg("spinner.stop", "Secret created successfully"),
                     Msg("p.outro", "Secret '" \o loc.secretName
                                      \o "' has been saved to AWS Secrets Manager")>>)
    /\ UNCHANGED <<cancelled, steps, writes, config, merged, loc, others>>

(***************************************************************************)
(* get, pull and delete start alike (src/src/commands/get.ts 49-95,        *)
(* src/src/pull.ts 61-110, delete 55-104): the secret name is the flag, or *)
(* is selected from the list fetched from the store.                       *)
(***************************************************************************)
AfterSecretName ==
    CASE cmd = "get" -> "getValue"
      [] cmd = "pull" -> "outputPath"
      [] cmd = "delete" -> "recoveryDays"

\* const nameFlag = ctx.values.name ?? config.name;
NameFlag ==
    IF Get(values, "name") \notin {Undefined, Null}
    THEN Get(values, "name")
    ELSE Get(config, "name")

RunSecretName ==
    /\ cmd \in {"get", "pull", "delete"} /\ pc = "secretName"
    /\ IF Truthy(NameFlag)
       THEN loc' = [loc EXCEPT !.secretName = NameFlag] /\ Goto(AfterSecretName)
       ELSE UNCHANGED loc /\ Goto("fetchList")
    /\ UNCHANGED <<cancelled, steps, awsCalls, shown, writes, config, merged, others>>

\* The names list-secrets may answer with.
SecretLists == {<<>>, <<"s1">>, <<"s1", "s2">>}

\* fetchSecretList (src/unnamed/part_002 38-58) and what the handler does
\* with its answer.
RunFetchList ==
    /\ cmd \in {"get", "pull", "delete"} /\ pc = "fetchList"
    /\ \E result \in ExecResults, secrets \in SecretLists :
         /\ awsCalls' = Append(awsCalls, Call("list-secrets", "", "", result))
         /\ IF result.exitCode # 0
            THEN OnRemoteFailure(result.stderr) /\ UNCHANGED loc
            ELSE IF Len(secrets) = 0
            THEN /\ Exit(1, "no-secrets", <<Msg("p.cancel", "No secrets found")>>)
                 /\ UNCHANGED loc
            ELSE /\ loc' = [loc EXCEPT !.secrets = secrets]
                 /\ Goto("selectSecret")
                 /\ UNCHANGED shown
    /\ UNCHANGED <<cancelled, steps, writes, config, merged, others>>

\* p.select("Select a secret:")
RunSelectSecret ==
    /\ cmd \in {"get", "pull", "delete"} /\ pc = "selectSecret"
    /\ \E selected \in {Cancel} \cup {loc.secrets[i] : i \in 1..Len(loc.secrets)} :
         IF selected = Cancel
         THEN cancelled' = TRUE /\ OnCancel /\ UNCHANGED loc
         ELSE /\ loc' = [loc EXCEPT !.secretName = selected]
              /\ Goto(AfterSecretName)
              /\ UNCHANGED <<cancelled, shown>>
    /\ UNCHANGED <<steps, awsCalls, writes, config, merged, others>>

(***************************************************************************)
(* get (src/src/commands/get.ts 97-131)                                    *)
(***************************************************************************)
GetValue ==
    /\ cmd = "get" /\ pc = "getValue"
    /\ \E getResult \in ExecResults :
         /\ awsCalls' = Append(awsCalls,
               Call("get-secret-value", loc.secretName, "", getResult))
         /\ IF getResult.exitCode # 0
            THEN OnRemoteFailure(getResult.stderr)
            ELSE Exit(0, "done",
                   <<Msg("p.log.info", "Secret: " \o loc.secretName),
                     Msg("p.outro", "Done")>>)
    /\ UNCHANGED <<cancelled, steps, writes, config, merged, loc, others>>

(***************************************************************************)
(* pull (src/src/pull.ts 112-212)                                          *)
(***************************************************************************)
\* const outputFlag = ctx.values.output ?? config.output;
OutputFlag ==
    IF Get(values, "output") \notin {Undefined, Null}
    THEN Get(values, "output")
    ELSE Get(config, "output")

\* An overwrite that is never confirmed.
NeverConfirmOverwrite == "pullValue"

\* if (fileExists && !forceFlag) the overwrite is to be confirmed.
AfterOutputPath ==
    IF outputExists /\ ~Truthy(Get(values, "force")) THEN "confirmOverwrite"
    ELSE "pullValue"

\* 2. Get output file path; 3. Check if file exists
PullOutputPath ==
    /\ cmd = "pull" /\ pc = "outputPath"
    /\ IF Truthy(OutputFlag)
       THEN /\ loc' = [loc EXCEPT !.outputPath = OutputFlag]
            /\ Goto(AfterOutputPath)
            /\ UNCHANGED <<cancelled, shown>>
       ELSE \E result \in {Cancel, ".env", ".env.local", "__other__"} :
              IF result = Cancel
              THEN cancelled' = TRUE /\ OnCancel /\ UNCHANGED loc
              ELSE /\ UNCHANGED <<cancelled, shown>>
                   /\ IF result = "__other__"
                      THEN UNCHANGED loc /\ Goto("customPath")
                      ELSE /\ loc' = [loc EXCEPT !.outputPath = result]
                           /\ Goto(AfterOutputPath)
    /\ UNCHANGED <<steps, awsCalls, writes, config, merged, others>>

\* p.text("Enter the output file path:")
PullCustomPath ==
    /\ cmd = "pull" /\ pc = "customPath"
    /\ \E customPath \in {Cancel, "custom.env"} :
         IF customPath = Cancel
         THEN cancelled' = TRUE /\ OnCancel /\ UNCHANGED loc
         ELSE /\ loc' = [loc EXCEPT !.outputPath = customPath]
              /\ Goto(AfterOutputPath)
              /\ UNCHANGED <<cancelled, shown>>
    /\ UNCHANGED <<steps, awsCalls, writes, config, merged, others>>

\* p.confirm("File ... already exists. Overwrite?")
PullConfirmOverwrite ==
    /\ cmd = "pull" /\ pc = "confirmOverwrite"
    /\ \E confirmed \in {Cancel, FalseV, TrueV} :
         /\ loc' = [loc EXCEPT !.confirmed = confirmed]
         /\ IF confirmed = Cancel
            THEN cancelled' = TRUE /\ OnCancel
            ELSE /\ UNCHANGED cancelled
                 /\ IF confirmed = FalseV
                    THEN Exit(0, "declined", <<Msg("p.cancel", "Operation cancelled")>>)
                    ELSE Goto("pullValue") /\ UNCHANGED shown
    /\ UNCHANGED <<steps, awsCalls, writes, config, merged, others>>

\* What SecretString may hold: the JSON of an object of strings, a text
\* that is not JSON, or the JSON of an object with a value that is not a
\* string.  value holds the entries that are strings.
SecretStrings ==
    {[raw |-> "{\"A\":\"1\"}", isJson |-> TRUE, nonString |-> FALSE,
      value |-> <<[key |-> <<"A">>, value |-> <<"1">>]>>],
     [raw |-> "plain text", isJson |-> FALSE, nonString |-> FALSE, value |-> <<>>],
     [raw |-> "{\"A\":\"1\",\"N\":2}", isJson |-> TRUE, nonString |-> TRUE,
      value |-> <<[key |-> <<"A">>, value |-> <<"1">>]>>]}

\* try { parsed = JSON.parse(secretString); envContent = jsonToEnv(parsed); }
\* catch { envContent = secretString; }
\* JSON.parse throws on a text that is not JSON; jsonToEnv throws on a value
\* that is not a string, which has no replace method.
EnvContent(secret) ==
    IF ~secret.isJson \/ secret.nonString
    THEN secret.raw
    ELSE ToStr(jsonToEnv(secret.value))

\* A fetch that is taken to have succeeded whatever its exit code.
FetchNeverFailed(getResult) == FALSE

\* if (getResult.exitCode !== 0)
FetchFailed(getResult) == getResult.exitCode # 0

\* 4. Fetch secret value; 5. convert to .env format; 6. write the file
PullValue ==
    /\ cmd = "pull" /\ pc = "pullValue"
    /\ \E getResult \in ExecResults, stdoutIsJson \in BOOLEAN,
          secret \in SecretStrings :
         /\ awsCalls' = Append(awsCalls,
               Call("get-secret-value", loc.secretName, "", getResult))
         /\ loc' = IF ~FetchFailed(getResult) /\ stdoutIsJson
                   THEN [loc EXCEPT !.secretString = secret]
                   ELSE loc
         /\ IF FetchFailed(getResult)
            THEN OnRemoteFailure(getResult.stderr) /\ UNCHANGED writes
            ELSE IF ~stdoutIsJson
            THEN \* JSON.parse(getResult.stdout) throws, and nothing catches it
                 Exit(1, "uncaught", <<>>) /\ UNCHANGED writes
            ELSE LET envContent == EnvContent(secret)
                     header == generateEnvHeader(loc.secretName)
                 IN  /\ writes' = Append(writes,
                           [path |-> loc.outputPath,
                            data |-> header \o "\n" \o envContent \o "\n"])
                     /\ Exit(0, "done",
                           <<Msg("p.outro", "Secret '" \o loc.secretName
                                   \o "' has been written to '" \o loc.outputPath \o "'")>>)
    /\ UNCHANGED <<cancelled, steps, config, merged, others>>

(***************************************************************************)
(* delete (src/unnamed/part_006 106-176)                                   *)
(***************************************************************************)
\* A deletion that is never confirmed.
NeverConfirmDelete == "deleteSecret"

\* if (!forceFlag) the deletion is to be confirmed.
AfterRecoveryDays ==
    IF Truthy(Get(values, "force")) THEN "deleteSecret" ELSE "confirmDelete"

\* 2. Get recovery window days: the flag, checked here, or the prompt.
DeleteRecoveryDays ==
    /\ cmd = "delete" /\ pc = "recoveryDays"
    /\ IF TruthyText(rdFlag)
       THEN IF InvalidRecoveryDays(rdFlag)
            THEN /\ Exit(1, "recovery-days",
                       <<Msg("p.cancel", "Invalid recovery days: " \o ToStr(rdFlag)
                               \o ". Must be between 7 and 30.")>>)
                 /\ UNCHANGED <<cancelled, loc>>
            ELSE /\ loc' = [loc EXCEPT !.recoveryDays = ParseInt(rdFlag).n]
                 /\ Goto(AfterRecoveryDays)
                 /\ UNCHANGED <<cancelled, shown>>
       ELSE \E result \in {<<Cancel>>} \cup PromptDayTexts :
              IF result = <<Cancel>>
              THEN cancelled' = TRUE /\ OnCancel /\ UNCHANGED loc
              ELSE /\ loc' = [loc EXCEPT !.recoveryDays = ParseInt(result).n]
                   /\ Goto(AfterRecoveryDays)
                   /\ UNCHANGED <<cancelled, shown>>
    /\ UNCHANGED <<steps, awsCalls, writes, config, merged, others>>

\* 3. Confirm deletion
DeleteConfirm ==
    /\ cmd = "delete" /\ pc = "confirmDelete"
    /\ \E confirmed \in {Cancel, FalseV, TrueV} :
         /\ loc' = [loc EXCEPT !.confirmed = confirmed]
         /\ IF confirmed = Cancel
            THEN cancelled' = TRUE /\ OnCancel
            ELSE /\ UNCHANGED cancelled
                 /\ IF confirmed = FalseV
                    THEN Exit(0, "declined", <<Msg("p.cancel", "Operation cancelled")>>)
                    ELSE Goto("deleteSecret") /\ UNCHANGED shown
    /\ UNCHANGED <<steps, awsCalls, writes, config, merged, others>>

\* The decimal digits of String(recoveryDays), for 0..99.
DayString(n) ==
    LET d(k) == CHOOSE c \in Digits : DigitValue(c) = k
    IN  ToStr(IF n < 10 THEN <<d(n)>> ELSE <<d(n \div 10), d(n % 10)>>)

\* 4. Delete secret
DeleteSecret ==
    /\ cmd = "delete" /\ pc = "deleteSecret"
    /\ \E deleteResult \in ExecResults :
         /\ awsCalls' = Append(awsCalls,
               Call("delete-secret", loc.secretName, DayString(loc.recoveryDays),
                    deleteResult))
         /\ IF deleteResult.exitCode # 0
            THEN OnRemoteFailure(deleteResult.stderr)
            ELSE Exit(0, "done",
                   <<Msg("p.outro", "Secret '" \o loc.secretName
                           \o "' has been scheduled for deletion (recoverable for "
                           \o DayString(loc.recoveryDays) \o " days)")>>)
    /\ UNCHANGED <<cancelled, steps, writes, config, merged, loc, others>>

(***************************************************************************)
(* init (src/src/commands/init.ts 20-60)                                   *)
(***************************************************************************)
CONFIG_FILE == ".e2smrc.jsonc"

\* access(CONFIG_FILE): the file at the first candidate path.
ConfigFileExists == fs[Candidates[1]] # NoFile

InitCheck ==
    /\ cmd = "init" /\ pc = "initCheck"
    /\ IF ConfigFileExists /\ ~Truthy(Get(values, "force"))
       THEN Goto("initConfirm")
       ELSE Goto("initWrite")
    /\ UNCHANGED <<cancelled, steps, awsCalls, shown, writes, config, merged, loc, others>>

InitConfirm ==
    /\ cmd = "init" /\ pc = "initConfirm"
    /\ \E confirmed \in {Cancel, FalseV, TrueV} :
         /\ loc' = [loc EXCEPT !.confirmed = confirmed]
         /\ IF confirmed = Cancel
            THEN cancelled' = TRUE /\ OnCancel
            ELSE /\ UNCHANGED cancelled
                 /\ IF confirmed = FalseV
                    THEN Exit(0, "declined", <<Msg("p.cancel", "Operation cancelled")>>)
                    ELSE Goto("initWrite") /\ UNCHANGED shown
    /\ UNCHANGED <<steps, awsCalls, writes, config, merged, others>>

\* Bun.write(CONFIG_FILE, template) succeeds or throws.
InitWrite ==
    /\ cmd = "init" /\ pc = "initWrite"
    /\ \E threw \in BOOLEAN :
         IF threw
         THEN /\ Exit(1, "write-failed",
                    <<Msg("p.cancel", "Failed to write '" \o CONFIG_FILE \o "'")>>)
              /\ UNCHANGED writes
         ELSE /\ writes' = Append(writes, [path |-> CONFIG_FILE, data |-> "template"])
              /\ Exit(0, "done",
                    <<Msg("p.outro",
                          (IF ConfigFileExists THEN "Overwritten '" ELSE "Created '")
                            \o CONFIG_FILE \o "'")>>)
    /\ UNCHANGED <<cancelled, steps, awsCalls, config, merged, loc, others>>

(***************************************************************************)
(* toKebabCase (src/src/lib.ts 126-128) applied to a text.                 *)
(***************************************************************************)
MaxWord == 4

KebabAlphabet == {"a", "b", "A", "B", "1", "-"}

\* Every text of up to MaxWord characters, and three option names.
KebabWords ==
    UNION {[1..n -> KebabAlphabet] : n \in 0..MaxWord}
      \cup {<<"t", "h", "i", "s", "I", "s", "A", "T", "e", "s", "t">>,
            <<"d", "r", "y", "R", "u", "n">>,
            <<"r", "e", "c", "o", "v", "e", "r", "y", "D", "a", "y", "s">>}

InitKebab ==
    /\ kcStr \in KebabWords
    /\ kcResult = <<>>
    /\ kcPc = "call"

IdleKebab ==
    /\ kcStr = <<>>
    /\ kcResult = <<>>
    /\ kcPc = "idle"

ToKebabCase ==
    /\ kcPc = "call"
    /\ kcResult' = toKebabCase(kcStr)
    /\ kcPc' = "done"
    /\ UNCHANGED <<kcStr, fjVars, execVars>>
    /\ UNCHANGED <<envVars, mergeVars, ufVars, ncVars, fs, loadVars, cmdVars>>

(***************************************************************************)
(* formatJson (src/src/lib.ts 312-352).  A value is a record: t is what    *)
(* typeof and Array.isArray tell of it, s its text (the characters of a    *)
(* string, String(obj) of a number or boolean, toString() of a symbol),    *)
(* items the elements of an array or the values of Object.entries, keys    *)
(* the keys of Object.entries.  The result is a sequence of characters in  *)
(* which an escape sequence of kleur is one element.                       *)
(***************************************************************************)
Styled(open, text, close) == <<open>> \o text \o <<close>>

dim(text)   == Styled("<dim>", text, "</dim>")
gray(text)  == Styled("<gray>", text, "</gray>")
green(text) == Styled("<green>", text, "</green>")
cyan(text)  == Styled("<cyan>", text, "</cyan>")

\* An indent of four spaces for each level.
FourSpaces(indent) == [i \in 1..(4 * indent) |-> " "]

\* const spaces = "  ".repeat(indent);
Spaces(indent) == [i \in 1..(2 * indent) |-> " "]

Quoted(text) == <<"\"">> \o text \o <<"\"">>

RECURSIVE formatJson(_, _)
formatJson(obj, indent) ==
    LET spaces == Spaces(indent)
    IN  CASE obj.t = "null" -> gray(<<"n", "u", "l", "l">>)
          [] obj.t = "string" -> green(Quoted(obj.s))
          [] obj.t \in {"number", "boolean", "bigint"} -> obj.s
          [] obj.t = "undefined" ->
               gray(<<"u", "n", "d", "e", "f", "i", "n", "e", "d">>)
          [] obj.t = "symbol" -> gray(obj.s)
          [] obj.t = "function" ->
               gray(<<"[", "F", "u", "n", "c", "t", "i", "o", "n", "]">>)
          [] obj.t = "array" ->
               IF Len(obj.items) = 0 THEN dim(<<"[", "]">>)
               ELSE LET items == [i \in 1..Len(obj.items) |->
                                    spaces \o <<" ", " ">>
                                      \o formatJson(obj.items[i], indent + 1)]
                    IN  dim(<<"[">>) \o <<"\n">>
                          \o Join(items, dim(<<",">>) \o <<"\n">>)
                          \o <<"\n">> \o spaces \o dim(<<"]">>)
          [] OTHER ->
               IF Len(obj.items) = 0 THEN dim(<<"{", "}">>)
               ELSE LET items == [i \in 1..Len(obj.items) |->
                                    spaces \o <<" ", " ">>
                                      \o cyan(Quoted(obj.keys[i])) \o dim(<<":">>)
                                      \o <<" ">>
                                      \o formatJson(obj.items[i], indent + 1)]
                    IN  dim(<<"{">>) \o <<"\n">>
                          \o Join(items, dim(<<",">>) \o <<"\n">>)
                          \o <<"\n">> \o spaces \o dim(<<"}">>)

\* The values formatJson is applied to.
Leaf(t, s) == [t |-> t, s |-> s, keys |-> <<>>, items |-> <<>>]
JArray(items) == [t |-> "array", s |-> <<>>, keys |-> <<>>, items |-> items]
JObject(keys, items) == [t |-> "object", s |-> <<>>, keys |-> keys, items |-> items]

MaxItems == 2
MaxIndent == 2

Leaves == {Leaf("null", <<>>), Leaf("string", <<"a">>), Leaf("number", <<"1">>)}

ObjectKeys == {<<"k">>, <<"j">>, <<"1">>}

\* The arrays and the objects of up to MaxItems children out of a set; the
\* keys of an object differ.
Collections(children) ==
    LET lists == UNION {[1..n -> children] : n \in 0..MaxItems}
        keyLists == {ks \in UNION {[1..n -> ObjectKeys] : n \in 0..MaxItems} :
                       \A i, j \in 1..Len(ks) : i # j => ks[i] # ks[j]}
    IN  {JArray(l) : l \in lists}
          \cup {JObject(p[1], p[2]) :
                   p \in {q \in keyLists \X lists : Len(q[1]) = Len(q[2])}}

\* Children that are collections themselves, one of them two levels deep.
Inner ==
    {Leaf("string", <<"a">>), Leaf("boolean", <<"t", "r", "u", "e">>),
     JArray(<<>>), JObject(<<>>, <<>>),
     JArray(<<Leaf("number", <<"1">>), Leaf("null", <<>>)>>),
     JObject(<<<<"k">>>>, <<JArray(<<Leaf("string", <<"a">>)>>)>>)}

FormatValues == Leaves \cup Collections(Leaves) \cup Collections(Inner)

InitFormat ==
    /\ fjObj \in FormatValues
    /\ fjIndent \in 0..MaxIndent
    /\ fjResult = <<>>
    /\ fjPc = "call"

IdleFormat ==
    /\ fjObj = Leaf("null", <<>>)
    /\ fjIndent = 0
    /\ fjResult = <<>>
    /\ fjPc = "idle"

FormatJson ==
    /\ fjPc = "call"
    /\ fjResult' = formatJson(fjObj, fjIndent)
    /\ fjPc' = "done"
    /\ UNCHANGED <<fjObj, fjIndent, kcVars, execVars>>
    /\ UNCHANGED <<envVars, mergeVars, ufVars, ncVars, fs, loadVars, cmdVars>>

(***************************************************************************)
(* exec (src/unnamed/part_002 3-24): the promise around a spawned process. *)
(* The executor spawns the command and registers three listeners: "data"   *)
(* on stdout, "data" on stderr, "close" on the process.  It registers no   *)
(* "error" listener.                                                       *)
(***************************************************************************)
MaxChunks == 2

Chunks == {"a", "b"}

\* The code of a process that was ended by a signal.
NullCode == 0 - 1

CloseCodes == {0, 1, 254, NullCode}

\* code ?? 1
OrOne(code) == IF code = NullCode THEN 1 ELSE code

\* The code handed on as it came.
AsIs(code) == code

NoValue == [exitCode |-> NullCode, stdout |-> "", stderr |-> ""]

Pending == [state |-> "pending", value |-> NoValue]

\* resolve(value): settles a pending promise, and does nothing to a settled one.
Resolve(value) ==
    /\ promise' = IF promise.state = "pending"
                  THEN [state |-> "resolved", value |-> value]
                  ELSE promise
    /\ settles' = settles + 1

\* An exception thrown inside the executor rejects the promise.
Reject ==
    /\ promise' = IF promise.state = "pending"
                  THEN [state |-> "rejected", value |-> NoValue]
                  ELSE promise
    /\ settles' = settles + 1

InitExec ==
    /\ procState = "spawning"
    /\ execStdout = ""
    /\ execStderr = ""
    /\ emitted = [out |-> <<>>, err |-> <<>>, close |-> <<>>]
    /\ promise = Pending
    /\ settles = 0

IdleExec ==
    /\ procState = "idle"
    /\ execStdout = ""
    /\ execStderr = ""
    /\ emitted = [out |-> <<>>, err |-> <<>>, close |-> <<>>]
    /\ promise = Pending
    /\ settles = 0

\* const proc = spawn(command, args, ...): the command starts; or it cannot
\* be started and the process emits "error", which has no listener, so the
\* event is thrown as an uncaught exception and ends the program with the
\* promise pending; or spawn itself throws, inside the executor.
ExecSpawn ==
    /\ procState = "spawning"
    /\ \E outcome \in {"started", "error-event", "threw"} :
         CASE outcome = "started" ->
                /\ procState' = "running"
                /\ UNCHANGED <<promise, settles>>
           [] outcome = "error-event" ->
                /\ procState' = "crashed"
                /\ UNCHANGED <<promise, settles>>
           [] OTHER ->
                /\ procState' = "failed"
                /\ Reject
    /\ UNCHANGED <<execStdout, execStderr, emitted, kcVars, fjVars>>
    /\ UNCHANGED <<envVars, mergeVars, ufVars, ncVars, fs, loadVars, cmdVars>>

\* proc.stdout.on("data", (data) => { stdout += data.toString(); });
ExecStdoutData ==
    /\ procState = "running"
    /\ Len(emitted.out) < MaxChunks
    /\ \E data \in Chunks :
         /\ execStdout' = execStdout \o data
         /\ emitted' = [emitted EXCEPT !.out = Append(@, data)]
    /\ UNCHANGED <<procState, execStderr, promise, settles, kcVars, fjVars>>
    /\ UNCHANGED <<envVars, mergeVars, ufVars, ncVars, fs, loadVars, cmdVars>>

\* proc.stderr.on("data", (data) => { stderr += data.toString(); });
ExecStderrData ==
    /\ procState = "running"
    /\ Len(emitted.err) < MaxChunks
    /\ \E data \in Chunks :
         /\ execStderr' = execStderr \o data
         /\ emitted' = [emitted EXCEPT !.err = Append(@, data)]
    /\ UNCHANGED <<procState, execStdout, promise, settles, kcVars, fjVars>>
    /\ UNCHANGED <<envVars, mergeVars, ufVars, ncVars, fs, loadVars, cmdVars>>

\* proc.on("close", (code) => { resolve({ exitCode: code ?? 1, stdout, stderr }); });
\* "close" comes once, after the process has ended and its streams are closed.
ExecClose ==
    /\ procState = "running"
    /\ \E code \in CloseCodes :
         /\ emitted' = [emitted EXCEPT !.close = Append(@, code)]
         /\ Resolve([exitCode |-> OrOne(code), stdout |-> execStdout,
                     stderr |-> execStderr])
    /\ procState' = "closed"
    /\ UNCHANGED <<execStdout, execStderr, kcVars, fjVars>>
    /\ UNCHANGED <<envVars, mergeVars, ufVars, ncVars, fs, loadVars, cmdVars>>

IdleLib == IdleKebab /\ IdleFormat /\ IdleExec

(***************************************************************************)
(* The specifications: one for each function checked on its own, and one   *)
(* for the command handlers.  The variables a specification does not use   *)
(* stay at their idle values.                                              *)
(***************************************************************************)
InitSpecEnv ==
    InitEnv /\ IdleMerge /\ IdleUnknown /\ IdleConflict /\ IdleFs /\ IdleLoad /\ IdleCmd /\ IdleLib

NextEnv == Parse \/ Serialize \/ Reparse

SpecEnv == InitSpecEnv /\ [][NextEnv]_vars

\* The codec applied to texts of up to MaxLines lines taken from EnvLines.
MaxLines == 3

EnvLines ==
    {<<"A", "=", "1">>, <<"A", "=", "2">>, <<"B", "=", "1">>, <<"1", "=", "A">>,
     <<"0", "=", "B">>, <<"A", "=">>, <<" ", "A", " ", "=", " ", "3">>,
     <<"#", "A", "=", "9">>, <<>>, <<"A">>, <<"=", "1">>,
     <<"B", "=", "\"", "#", "\"">>}

EnvLineTexts ==
    {Join(ls, <<"\n">>) : ls \in UNION {[1..n -> EnvLines] : n \in 1..MaxLines}}

InitSpecLines ==
    /\ content \in EnvLineTexts
    /\ parsed = NotRun
    /\ serialized = <<>>
    /\ reparsed = NotRun
    /\ envPc = "parse"
    /\ IdleMerge /\ IdleUnknown /\ IdleConflict /\ IdleFs /\ IdleLoad /\ IdleCmd /\ IdleLib

SpecLines == InitSpecLines /\ [][NextEnv]_vars

\* jsonToEnv applied to objects of up to MaxEntries entries, such as pull
\* gets from JSON.parse: the values hold quotes, backslashes, line feeds.
MaxEntries == 2

JsonKeys == {<<"A">>, <<"B">>, <<"1">>}

JsonValues ==
    {<<>>, <<"\"">>, <<"\\">>, <<"\n">>, <<"'", "#">>, <<"a", "\"", "\"">>,
     <<"\\", "\"">>}

JsonObjects ==
    {obj \in UNION {[1..n -> [key : JsonKeys, value : JsonValues]] : n \in 0..MaxEntries} :
       \A i, j \in 1..Len(obj) : i # j => obj[i].key # obj[j].key}

InitSpecJson ==
    /\ content = <<>>
    /\ parsed \in JsonObjects
    /\ serialized = <<>>
    /\ reparsed = NotRun
    /\ envPc = "serialize"
    /\ IdleMerge /\ IdleUnknown /\ IdleConflict /\ IdleFs /\ IdleLoad /\ IdleCmd /\ IdleLib

NextJson == Serialize \/ Reparse

SpecJson == InitSpecJson /\ [][NextJson]_vars

InitSpecMerge ==
    IdleEnv /\ InitMerge /\ IdleUnknown /\ IdleConflict /\ IdleFs /\ IdleLoad /\ IdleCmd /\ IdleLib

SpecMerge == InitSpecMerge /\ [][Merge]_vars

InitSpecUnknown ==
    IdleEnv /\ IdleMerge /\ InitUnknown /\ IdleConflict /\ IdleFs /\ IdleLoad /\ IdleCmd /\ IdleLib

SpecUnknown == InitSpecUnknown /\ [][ValidateUnknownFlags]_vars

InitSpecConflict ==
    IdleEnv /\ IdleMerge /\ IdleUnknown /\ InitConflict /\ IdleFs /\ IdleLoad /\ IdleCmd /\ IdleLib

SpecConflict == InitSpecConflict /\ [][ValidateNameTemplateConflict]_vars

InitSpecLoad ==
    IdleEnv /\ IdleMerge /\ IdleUnknown /\ IdleConflict /\ InitLoad /\ IdleCmd /\ IdleLib

SpecLoad == InitSpecLoad /\ [][LoadConfig]_vars

IdleRest ==
    IdleEnv /\ IdleMerge /\ IdleUnknown /\ IdleConflict /\ IdleFs /\ IdleLoad /\ IdleCmd

InitSpecKebab == IdleRest /\ InitKebab /\ IdleFormat /\ IdleExec

SpecKebab == InitSpecKebab /\ [][ToKebabCase]_vars

InitSpecFormat == IdleRest /\ IdleKebab /\ InitFormat /\ IdleExec

SpecFormat == InitSpecFormat /\ [][FormatJson]_vars

InitSpecExec == IdleRest /\ IdleKebab /\ IdleFormat /\ InitExec

NextExec == ExecSpawn \/ ExecStdoutData \/ ExecStderrData \/ ExecClose

\* Node runs a callback that is due: the event loop does not stall.
SpecExec == InitSpecExec /\ [][NextExec]_vars /\ WF_vars(NextExec)

Init ==
    IdleEnv /\ IdleMerge /\ IdleUnknown /\ IdleConflict /\ IdleLoad /\ InitCmd /\ IdleLib

Next ==
    \/ RunLoadConfig
    \/ RunValidateUnknown
    \/ SetValidateConflict
    \/ RunMerge
    \/ SetInputPath
    \/ SetReadEnv
    \/ SetSecretName
    \/ SetApplicationPrompt
    \/ SetStagePrompt
    \/ SetNamePrompt
    \/ SetDescribe
    \/ SetPut
    \/ SetCreate
    \/ RunSecretName
    \/ RunFetchList
    \/ RunSelectSecret
    \/ GetValue
    \/ PullOutputPath
    \/ PullCustomPath
    \/ PullConfirmOverwrite
    \/ PullValue
    \/ DeleteRecoveryDays
    \/ DeleteConfirm
    \/ DeleteSecret
    \/ InitCheck
    \/ InitConfirm
    \/ InitWrite

Spec == Init /\ [][Next]_vars

(***************************************************************************)
(* Properties.                                                             *)
(***************************************************************************)
\* The least element of a non-empty set of integers.
Least(S) == CHOOSE i \in S : \A j \in S : i <= j

\* C1: for every .env text, parsing it, serializing the result with
\* jsonToEnv and parsing that text again gives the key/value mapping of the
\* first parse, also when a parsed value contains a double quote.
C1_RoundTrip ==
    envPc = "done" => AsMapping(reparsed) = AsMapping(parsed)

\* C2: the merge gives, for every field, the CLI value when the CLI record
\* has the field with a value other than undefined (false and "" count);
\* otherwise the config value when the config has the field; otherwise the
\* field is absent.
C2_MergeFieldwise ==
    mergePc = "done" =>
      /\ DOMAIN mergeResult \subseteq E2smFields
      /\ \A f \in E2smFields :
           IF f \in DOMAIN cliValues /\ cliValues[f] # Undefined
           THEN f \in DOMAIN mergeResult /\ mergeResult[f] = cliValues[f]
           ELSE IF f \in DOMAIN cfgRecord
           THEN f \in DOMAIN mergeResult /\ mergeResult[f] = cfgRecord[f]
           ELSE f \notin DOMAIN mergeResult

\* A merge where an explicit false overrides the config's true, an undefined
\* CLI field leaves the config value, and a field of neither stays absent.
C2_Witness ==
    /\ mergePc = "done"
    /\ Get(cliValues, "template") = FalseV
    /\ Get(cfgRecord, "template") = TrueV
    /\ Get(mergeResult, "template") = FalseV
    /\ "application" \in DOMAIN cliValues
    /\ cliValues["application"] = Undefined
    /\ Get(cfgRecord, "application") = "config-app"
    /\ Get(mergeResult, "application") = "config-app"
    /\ "profile" \notin DOMAIN mergeResult

\* C3: validateUnknownFlags returns null iff every option token's name,
\* with one leading "no-" stripped, is help, h, version, v, a schema key,
\* its kebab-case form or its short alias; otherwise it returns
\* "Unknown option: --" and the unstripped name of the first such token.
C3_UnknownFlags ==
    ufPc = "done" =>
      LET known == {<<"h", "e", "l", "p">>, <<"h">>,
                    <<"v", "e", "r", "s", "i", "o", "n">>, <<"v">>}
                     \cup {ufArgs[i].key : i \in 1..Len(ufArgs)}
                     \cup {toKebabCase(ufArgs[i].key) : i \in 1..Len(ufArgs)}
                     \cup {ufArgs[i].short :
                             i \in {j \in 1..Len(ufArgs) : ufArgs[j].short # NoName}}
          stripped(n) == IF Len(n) >= 3 /\ SubSeq(n, 1, 3) = <<"n", "o", "-">>
                         THEN SubSeq(n, 4, Len(n)) ELSE n
          offenders == {i \in 1..Len(ufTokens) :
                          /\ ufTokens[i].kind = "option"
                          /\ stripped(ufTokens[i].name) \notin known}
      IN  IF offenders = {} THEN ufResult = Null
          ELSE ufResult = "Unknown option: --"
                            \o ToStr(ufTokens[Least(offenders)].name)

\* Two unknown options after nothing else: the first one is reported, with
\* its "no-" prefix.
C3_Witness ==
    /\ ufPc = "done"
    /\ Len(ufTokens) = 2
    /\ ufTokens[1] = [kind |-> "option", name |-> S_no \o S_unknown]
    /\ ufTokens[2] = [kind |-> "option", name |-> <<"x">>]
    /\ ufResult = "Unknown option: --no-unknown"

\* C4: validateNameTemplateConflict returns an error iff name is set and at
\* least one of template, application, stage is set (set: a truthy value);
\* the error lists the set ones only, in the order --template,
\* --application, --stage; otherwise it returns null.
C4_NameTemplateConflict ==
    ncPc = "done" =>
      LET isSet(f) == ncFlags[f] \notin {Undefined, FalseV, ""}
          trio     == SelectSeq(<<"template", "application", "stage">>, isSet)
          listed   == [i \in 1..Len(trio) |-> "--" \o trio[i]]
      IN  IF isSet("name") /\ trio # <<>>
          THEN ncResult = "Cannot use --name with " \o JoinStr(listed, ", ")
          ELSE ncResult = Null

\* name with application and stage but no template: two flags are listed.
C4_Witness ==
    /\ ncPc = "done"
    /\ ncFlags = [name |-> "s", template |-> Undefined,
                  application |-> "a", stage |-> "p"]
    /\ ncResult = "Cannot use --name with --application, --stage"

\* C5: a run that ends on a validation error (unknown flag, name/template
\* conflict, recovery days out of range) ends with a non-zero status and
\* has made no call to the secret store.
C5_ValidationBeforeRemote ==
    exitReason \in {"unknown-flag", "conflict", "recovery-days"} =>
      exitStatus # 0 /\ awsCalls = <<>>

\* C6: a non-zero exit of list-secrets, get-secret-value, put-secret-value,
\* create-secret or delete-secret is the last call of the run, and the run
\* ends with a non-zero status after showing "Error: " and the captured
\* stderr; a non-zero exit of describe-secret is not shown: it is followed
\* by one create-secret and nothing else.
C6_RemoteFailure ==
    \A i \in 1..Len(awsCalls) :
      awsCalls[i].exitCode # 0 =>
        IF awsCalls[i].op = "describe-secret"
        THEN IF i = Len(awsCalls)
             THEN pc = "create" /\ exitStatus = Running
             ELSE i + 1 = Len(awsCalls) /\ awsCalls[i + 1].op = "create-secret"
        ELSE /\ i = Len(awsCalls)
             /\ pc = "exited"
             /\ exitStatus # 0
             /\ shown # <<>>
             /\ shown[Len(shown)] = Msg("p.cancel", "Error: " \o awsCalls[i].stderr)

\* describe-secret fails, then create-secret fails with an error text.
C6_Witness ==
    /\ Len(awsCalls) = 2
    /\ awsCalls[1].op = "describe-secret" /\ awsCalls[1].exitCode # 0
    /\ awsCalls[2].op = "create-secret" /\ awsCalls[2].exitCode # 0
    /\ awsCalls[2].stderr = "AccessDenied"
    /\ exitStatus = 1

\* C6 as stated: in a finished run, every call that exited non-zero,
\* describe-secret included, is the last call, and the run ended non-zero
\* showing its stderr.
C6_AsStated ==
    pc = "exited" =>
      \A i \in 1..Len(awsCalls) :
        awsCalls[i].exitCode # 0 =>
          /\ i = Len(awsCalls)
          /\ exitStatus # 0
          /\ shown # <<>>
          /\ shown[Len(shown)] = Msg("p.cancel", "Error: " \o awsCalls[i].stderr)

\* C7: once a prompt has been cancelled the process has exited with status
\* 0, and no step after the cancellation calls the secret store or writes a
\* file.
C7_CancelExitsZero ==
    /\ [](cancelled => pc = "exited" /\ exitStatus = 0)
    /\ [][cancelled => UNCHANGED <<awsCalls, writes>>]_vars

\* The secret selection is cancelled after list-secrets answered.
C7_Witness ==
    /\ cancelled
    /\ Len(awsCalls) = 1
    /\ awsCalls[1].op = "list-secrets"
    /\ exitStatus = 0

\* C8: the set handler loads the config, checks the tokens, checks the
\* name/template conflict and only then merges; the conflict check reads
\* the CLI values alone, so the run is rejected as a conflict exactly when
\* --name and one of --template, --application, --stage are given on the
\* command line, whatever the config file holds.
C8_ValidateThenMerge ==
    cmd = "set" =>
      LET order == <<"loadConfig", "validateUnknownFlags",
                     "validateNameTemplateConflict", "mergeWithConfig">>
      IN  /\ Len(steps) <= Len(order)
          /\ steps = SubSeq(order, 1, Len(steps))
          /\ exitReason = "conflict" <=>
               /\ Len(steps) = 3
               /\ pc = "exited"
               /\ Truthy(Get(values, "name"))
               /\ \/ Truthy(Get(values, "template"))
                  \/ Truthy(Get(values, "application"))
                  \/ Truthy(Get(values, "stage"))
          /\ (Len(steps) >= 3 /\ exitReason # "unknown-flag"
                /\ Truthy(Get(values, "name")) /\ isTemplateMode(values))
               => exitReason = "conflict"

\* --name on the command line, template mode only in the config file: the
\* run goes on to the upload under the CLI name.
C8_Witness ==
    /\ cmd = "set"
    /\ Truthy(Get(values, "name"))
    /\ ~isTemplateMode(values)
    /\ isTemplateMode(config)
    /\ steps = <<"loadConfig", "validateUnknownFlags",
                 "validateNameTemplateConflict", "mergeWithConfig">>
    /\ pc = "describe"
    /\ loc.secretName = Get(values, "name")

\* C8 as stated: the steps are load, merge, validate, and a run with --name
\* on the command line and template mode in the config file is rejected as
\* a conflict by the check.
C8_AsStated ==
    cmd = "set" =>
      /\ \/ Len(steps) < 2
         \/ steps[2] = "mergeWithConfig"
      /\ (/\ Len(steps) >= 3
          /\ steps[3] = "validateNameTemplateConflict"
          /\ Truthy(Get(values, "name"))
          /\ isTemplateMode(config))
           => exitReason = "conflict"

\* C9: loadConfig returns the value of the first file, in the order cwd
\* .jsonc, cwd .json, home .jsonc, home .json, that exists and parses
\* without error, and of that file alone; the empty config when there is
\* no such file.
C9_FirstParsingFile ==
    loadPc = "done" =>
      LET order == <<"cwd/.e2smrc.jsonc", "cwd/.e2smrc.json",
                     "home/.e2smrc.jsonc", "home/.e2smrc.json">>
          good  == {i \in 1..4 : fs[order[i]].exists /\ fs[order[i]].errors = <<>>}
      IN  IF good = {} THEN loaded.config = EmptyConfig
          ELSE loaded.config = fs[order[Least(good)]].value

\* The project's .jsonc does not parse, its .json is missing, and both home
\* files parse: the home .jsonc alone is returned.
C9_Witness ==
    /\ loadPc = "done"
    /\ fs["cwd/.e2smrc.jsonc"].errors # <<>>
    /\ ~fs["cwd/.e2smrc.json"].exists
    /\ fs["home/.e2smrc.jsonc"] = FileOf([profile |-> "b"], <<>>)
    /\ fs["home/.e2smrc.json"] = FileOf([input |-> ".env.a"], <<>>)
    /\ loaded.config = [profile |-> "b"]

\* C10: loadConfig does not throw; it attempts the candidates in order up
\* to the winning file and no further; each attempted file with parse
\* errors gives a warning naming its path, followed by the notice that
\* the next candidate is tried; nothing else is warned about.
C10_ParseWarnings ==
    loadPc = "done" =>
      LET order == <<"cwd/.e2smrc.jsonc", "cwd/.e2smrc.json",
                     "home/.e2smrc.jsonc", "home/.e2smrc.json">>
          good  == {i \in 1..4 : fs[order[i]].exists /\ fs[order[i]].errors = <<>>}
          last  == IF good = {} THEN 4 ELSE Least(good)
          bad   == SelectSeq(SubSeq(order, 1, last),
                             LAMBDA c : fs[c].exists /\ fs[c].errors # <<>>)
      IN  /\ ~loaded.threw
          /\ loaded.attempted = SubSeq(order, 1, last)
          /\ Len(loaded.warnings) = 2 * Len(bad)
          /\ \A k \in 1..Len(bad) :
               /\ loaded.warnings[2 * k - 1] =
                    "Warning: Parse error in " \o bad[k] \o ": "
                      \o JoinStr(fs[bad[k]].errors, ", ")
               /\ loaded.warnings[2 * k] =
                    "Skipping this config file and trying next candidate..."

\* Two files with parse errors around a missing one, then the winner: two
\* warnings, and the last candidate is not attempted.
C10_Witness ==
    /\ loadPc = "done"
    /\ fs["cwd/.e2smrc.jsonc"].errors # <<>>
    /\ ~fs["cwd/.e2smrc.json"].exists
    /\ fs["home/.e2smrc.jsonc"].errors = <<>> /\ fs["home/.e2smrc.jsonc"].exists
    /\ fs["home/.e2smrc.json"].errors # <<>>
    /\ Len(loaded.warnings) = 2
    /\ Len(loaded.attempted) = 3
\* C11: the file pull writes holds, in order, the line "# Generated by
\* e2sm", the line "# Source: " with the secret name, one blank line, the
\* serialized entries (or the secret text when it is not JSON), and one
\* line feed at the end.
C11_PullFileLayout ==
    cmd = "pull" =>
      \A i \in 1..Len(writes) :
        \E secret \in SecretStrings :
          writes[i].data =
            "# Generated by e2sm\n" \o "# Source: " \o loc.secretName \o "\n"
              \o "\n"
              \o (IF secret.isJson THEN ToStr(jsonToEnv(secret.value))
                  ELSE secret.raw)
              \o "\n"

\* The one line of a text without line feed that gives an entry, as the
\* pieces the properties below speak of: the text before the first "=" and
\* the text after it, both trimmed.
OneLine == envPc \notin {"parse", "idle"} /\ \A i \in 1..Len(content) : content[i] # "\n"

FirstEqual(t) == CHOOSE i \in 1..Len(t) : t[i] = "=" /\ \A j \in 1..(i - 1) : t[j] # "="

HasEntry(line) ==
    LET t == Trim(line)
    IN  /\ t # <<>>
        /\ t[1] # "#"
        /\ \E i \in 1..Len(t) : t[i] = "="
        /\ Trim(SubSeq(t, 1, FirstEqual(t) - 1)) # <<>>

KeyText(line) == LET t == Trim(line) IN Trim(SubSeq(t, 1, FirstEqual(t) - 1))

ValueText(line) == LET t == Trim(line) IN Trim(SubSeq(t, FirstEqual(t) + 1, Len(t)))

QuoteChars == {"\"", "'"}

\* v starts and ends with the same quote character and has two characters
\* at least.
Enclosed(v) == Len(v) >= 2 /\ v[1] \in QuoteChars /\ v[Len(v)] = v[1]

\* v cut before its first "#", white space at the end removed.
BeforeHash(v) ==
    IF \E i \in 1..Len(v) : v[i] = "#"
    THEN TrimEnd(SubSeq(v, 1, (CHOOSE i \in 1..Len(v) :
                                 v[i] = "#" /\ \A j \in 1..(i - 1) : v[j] # "#") - 1))
    ELSE v

\* C12: a value is stripped of its quotes only when it starts and ends with
\* the same quote character and has at least two characters; then one
\* character goes from each end and the rest is kept as it is.  A value
\* that is one lone quote character is kept.
C12_QuoteStripping ==
    (OneLine /\ HasEntry(content)) =>
      LET v == ValueText(content)
      IN  /\ Len(parsed) = 1
          /\ Enclosed(v) => parsed[1].value = SubSeq(v, 2, Len(v) - 1)
          /\ (Len(v) = 1 /\ v[1] \in QuoteChars) => parsed[1].value = v
          /\ ~Enclosed(v) => parsed[1].value = BeforeHash(v)

\* The number of "#" in a text.
Hashes(s) == Cardinality({i \in 1..Len(s) : s[i] = "#"})

\* C13: an unquoted value that contains "#" is cut before the first "#" and
\* loses the white space at its end; a value enclosed in matching quotes
\* keeps every "#" it holds.
C13_HashHandling ==
    (OneLine /\ HasEntry(content)) =>
      LET v == ValueText(content)
      IN  /\ Len(parsed) = 1
          /\ (~Enclosed(v) /\ Hashes(v) > 0) =>
               /\ parsed[1].value = BeforeHash(v)
               /\ Hashes(parsed[1].value) = 0
          /\ Enclosed(v) =>
               /\ parsed[1].value = SubSeq(v, 2, Len(v) - 1)
               /\ Hashes(parsed[1].value) = Hashes(v)

\* A=1 # : the value is cut at the "#" and the space before it goes.
C13_Witness ==
    /\ envPc = "done"
    /\ content = <<"A", "=", "1", " ", "#">>
    /\ parsed = <<[key |-> <<"A">>, value |-> <<"1">>]>>

\* A value with no "#" and without the same quote character at both ends:
\* neither quote stripping nor comment removal applies to it.
Plain(v) ==
    /\ Hashes(v) = 0
    /\ ~(v # <<>> /\ v[1] \in QuoteChars /\ v[Len(v)] = v[1])

\* C14: the first "=" of a line separates key from value: the key is the
\* trimmed text before it, the value the trimmed text after it, later "="
\* included; nothing after the "=" gives the empty string.
C14_FirstEqualSplits ==
    (OneLine /\ HasEntry(content)) =>
      /\ Len(parsed) = 1
      /\ parsed[1].key = KeyText(content)
      /\ \A i \in 1..Len(parsed[1].key) : parsed[1].key[i] # "="
      /\ Plain(ValueText(content)) => parsed[1].value = ValueText(content)

\* A==1 : the second "=" stays in the value.
C14_Witness ==
    /\ envPc = "done"
    /\ content = <<"A", "=", "=", "1">>
    /\ parsed = <<[key |-> <<"A">>, value |-> <<"=", "1">>]>>

\* C15: a line that, trimmed, is empty, starts with "#", has no "=" or has
\* an empty key gives no entry: the keys of the result are those of the
\* other lines, and a text of such lines only (the empty text too) gives
\* the empty mapping.
C15_SkippedLines ==
    envPc \notin {"parse", "idle"} =>
      LET lines == Split(content, "\n")
          kept  == {i \in 1..Len(lines) : HasEntry(lines[i])}
      IN  /\ {parsed[i].key : i \in 1..Len(parsed)} = {KeyText(lines[i]) : i \in kept}
          /\ Len(parsed) <= Cardinality(kept)
          /\ kept = {} => parsed = <<>>

\* A comment line, a line with an empty key and a line without "=": the
\* result is empty.
C15_Witness ==
    /\ envPc = "done"
    /\ content = <<"#", "\n", "=", "\n", "A">>
    /\ parsed = <<>>

\* The lines of the text, those that give an entry, and the value the
\* entry of a line has (no line of EnvLines has a lone quote as value).
LinesOf(text) == Split(text, "\n")

Kept(text) == {i \in 1..Len(LinesOf(text)) : HasEntry(LinesOf(text)[i])}

EntryValue(line) ==
    LET v == ValueText(line)
    IN  IF Enclosed(v) THEN SubSeq(v, 2, Len(v) - 1) ELSE BeforeHash(v)

\* C16: a key that occurs on several lines is in the result exactly once,
\* with the value of the last of these lines.
C16_LastWriteWins ==
    envPc \notin {"parse", "idle"} =>
      \A i \in Kept(content) :
        LET lines == LinesOf(content)
            k     == KeyText(lines[i])
            same  == {j \in Kept(content) : KeyText(lines[j]) = k}
            last  == CHOOSE j \in same : \A h \in same : h <= j
            at    == {n \in 1..Len(parsed) : parsed[n].key = k}
        IN  /\ Cardinality(at) = 1
            /\ \A n \in at : parsed[n].value = EntryValue(lines[last])

\* A=1, B=1, A=2: A is held once, with the value 2.
C16_Witness ==
    /\ envPc = "done"
    /\ content = <<"A", "=", "1", "\n", "B", "=", "1", "\n", "A", "=", "2">>
    /\ AsMapping(parsed) = {<<(<<"A">>), (<<"2">>)>>, <<(<<"B">>), (<<"1">>)>>}
    /\ Len(parsed) = 2

\* The line on which a key occurs first.
FirstLineOf(text, k) ==
    CHOOSE i \in Kept(text) :
      /\ KeyText(LinesOf(text)[i]) = k
      /\ \A j \in Kept(text) : KeyText(LinesOf(text)[j]) = k => i <= j

\* C17: the entries of the result are iterated, and so serialized, in the
\* order in which their keys occur first in the text, whatever the keys.
C17_FirstOccurrenceOrder ==
    envPc \notin {"parse", "idle"} =>
      LET entries == ObjectEntries(parsed)
      IN  \A a, b \in 1..Len(entries) :
            a < b => FirstLineOf(content, entries[a].key)
                       < FirstLineOf(content, entries[b].key)

\* v with a backslash put before each of its double quotes, and nothing
\* else changed: the i-th character of v moves right by the number of
\* quotes up to it.
QuotesUpTo(v, i) == Cardinality({j \in 1..i : v[j] = "\""})

BackslashQuotes(v) ==
    [n \in 1..(Len(v) + QuotesUpTo(v, Len(v))) |->
       IF \E i \in 1..Len(v) : i + QuotesUpTo(v, i) = n
       THEN v[CHOOSE i \in 1..Len(v) : i + QuotesUpTo(v, i) = n]
       ELSE "\\"]

RECURSIVE EntryLines(_)
EntryLines(entries) ==
    IF entries = <<>> THEN <<>>
    ELSE Head(entries).key \o <<"=", "\"">> \o BackslashQuotes(Head(entries).value)
           \o <<"\"">>
           \o (IF Len(entries) > 1 THEN <<"\n">> \o EntryLines(Tail(entries)) ELSE <<>>)

\* C18: jsonToEnv gives one KEY="VALUE" for each entry, in iteration order,
\* with one line feed between two entries and none at the end; in VALUE a
\* backslash precedes every double quote and no other character is
\* changed; the empty object gives the empty string.
C18_JsonToEnv ==
    envPc \in {"reparse", "done"} =>
      /\ serialized = EntryLines(ObjectEntries(parsed))
      /\ parsed = <<>> => serialized = <<>>
      /\ serialized # <<>> => serialized[Len(serialized)] = "\""

\* A value that is a quote and a value that is a backslash: the quote gets
\* a backslash, the backslash stays single.
C18_Witness ==
    /\ envPc = "done"
    /\ parsed = <<[key |-> <<"A">>, value |-> <<"\"">>],
                  [key |-> <<"B">>, value |-> <<"\\">>]>>
    /\ serialized = <<"A", "=", "\"", "\\", "\"", "\"", "\n",
                      "B", "=", "\"", "\\", "\"">>

\* What the set handler reads for a field that the config file may give:
\* the CLI value when there is one, the config's otherwise.
Effective(f) ==
    IF f \in DOMAIN values /\ values[f] # Undefined THEN values[f]
    ELSE Get(config, f)

IsGiven(v) == v \notin {Undefined, Null, FalseV, ""}

\* C19: in set, the secret name is the CLI --name when given; otherwise,
\* when any of the merged template, application, stage is set, it is
\* <application>/<stage> with a part that is not set taken from its prompt;
\* otherwise it is the name entered at the prompt.
C19_SecretNameResolution ==
    (cmd = "set" /\ loc.secretName # Undefined) =>
      LET application == IF IsGiven(Effective("application"))
                         THEN Effective("application") ELSE "my-app"
          stage       == IF IsGiven(Effective("stage"))
                         THEN Effective("stage") ELSE "dev"
      IN  loc.secretName =
            IF IsGiven(Get(values, "name")) THEN Get(values, "name")
            ELSE IF \/ IsGiven(Effective("template"))
                    \/ IsGiven(Effective("application"))
                    \/ IsGiven(Effective("stage"))
            THEN application \o "/" \o stage
            ELSE "my-app/default"

\* --application alone, no --template and no config: template mode, the
\* stage comes from its prompt.
C19_Witness ==
    /\ cmd = "set"
    /\ DOMAIN values = {"application"}
    /\ config = EmptyConfig
    /\ pc = "describe"
    /\ loc.secretName = "cli-app/dev"

\* The run was given --dry-run.
DryRunGiven == cmd = "set" /\ "dryRun" \in DOMAIN values /\ values["dryRun"] = TrueV

Previewed == \E i \in 1..Len(shown) : shown[i].via = "console.log"

\* C20: a set run with --dry-run makes no call to the secret store; when
\* the input file exists and holds at least one entry, the run previews
\* the data and ends with exit status 0 without resolving a secret name.
C20_DryRunNoRemote ==
    DryRunGiven =>
      /\ awsCalls = <<>>
      /\ pc \notin {"secretName", "applicationPrompt", "stagePrompt", "namePrompt",
                    "describe", "put", "create"}
      /\ loc.envData # <<>> =>
           /\ pc = "exited"
           /\ exitStatus = 0
           /\ Previewed
           /\ shown[Len(shown)] = Msg("p.outro", "Dry-run complete")

\* A dry run over a file with two entries has ended with the preview.
C20_Witness ==
    /\ DryRunGiven
    /\ Len(loc.envData) = 2
    /\ pc = "exited"
    /\ exitStatus = 0
    /\ Previewed
    /\ awsCalls = <<>>

\* C20 as stated: a set run with --dry-run that has parsed its input file
\* makes no call to the secret store, previews the data and ends with exit
\* status 0.
C20_AsStated ==
    (DryRunGiven /\ exitReason \in {"empty-env", "dry-run"}) =>
      /\ awsCalls = <<>>
      /\ exitStatus = 0
      /\ Previewed

\* The set handler has looked at the input file.
InputRead == cmd = "set" /\ loc.envFilePath # Undefined /\ pc # "readEnv"

LastShown(via, text) == shown # <<>> /\ shown[Len(shown)] = Msg(via, text)

\* C21: in set, an input file that does not exist, or that parses to no
\* entry, ends the run with status 1 and its message ("File not found",
\* "No valid environment variables found") before any call to the secret
\* store.
C21_InputFileErrors ==
    InputRead =>
      /\ ~envFile.exists =>
           /\ pc = "exited" /\ exitStatus = 1
           /\ LastShown("p.cancel", "File not found: " \o loc.envFilePath)
           /\ awsCalls = <<>>
      /\ (envFile.exists /\ Kept(envFile.text) = {}) =>
           /\ pc = "exited" /\ exitStatus = 1
           /\ LastShown("p.cancel", "No valid environment variables found in the file")
           /\ awsCalls = <<>>

\* A run without --dry-run over a file that holds a comment only.
C21_Witness ==
    /\ InputRead
    /\ "dryRun" \notin DOMAIN values
    /\ envFile.exists
    /\ envFile.text = <<"#", " ", "c">>
    /\ exitStatus = 1
    /\ awsCalls = <<>>

\* A text that is a decimal number: digits only, one at least.
IsNumber(text) == text # <<>> /\ \A i \in 1..Len(text) : text[i] \in Digits

\* --recovery-days was given with a value that is not a number, or is
\* below 7, or is above 30.
BadRecoveryDays ==
    /\ cmd = "delete"
    /\ rdFlag # NoName
    /\ \/ ~IsNumber(rdFlag)
       \/ DecimalValue(rdFlag) < 7
       \/ DecimalValue(rdFlag) > 30

DeleteCalls == {i \in 1..Len(awsCalls) : awsCalls[i].op = "delete-secret"}

\* C22: a delete run whose --recovery-days is not a number, below 7 or
\* above 30 ends with "Invalid recovery days" and status 1, and every
\* delete-secret call has a recovery window from 7 to 30.
C22_RecoveryDaysRejected ==
    /\ (BadRecoveryDays /\ pc = "exited" /\ exitReason # "unknown-flag") =>
         /\ exitStatus = 1
         /\ LastShown("p.cancel", "Invalid recovery days: " \o ToStr(rdFlag)
                                    \o ". Must be between 7 and 30.")
    /\ \A i \in DeleteCalls :
         awsCalls[i].payload \in {DayString(n) : n \in 7..30}

\* C23: delete-secret is called only with --force or after the confirmation
\* was answered with yes; a declined or cancelled confirmation ends the run
\* with status 0 and without a delete-secret call.
C23_DeleteNeedsConsent ==
    cmd = "delete" =>
      /\ DeleteCalls # {} =>
           \/ Truthy(Get(values, "force"))
           \/ loc.confirmed = TrueV
      /\ loc.confirmed \in {Cancel, FalseV} =>
           /\ pc = "exited" /\ exitStatus = 0
           /\ DeleteCalls = {}

C23_Witness ==
    /\ cmd = "delete" /\ pc = "exited"
    /\ "force" \notin DOMAIN values
    /\ loc.confirmed = FalseV /\ DeleteCalls = {}
    /\ loc.recoveryDays = 7

GetValueCalls == {i \in 1..Len(awsCalls) : awsCalls[i].op = "get-secret-value"}

\* C24: pull writes over an existing output file only with --force or after
\* the overwrite was confirmed; when the confirmation is declined or
\* cancelled nothing is written, get-secret-value is not called and the
\* run ends with status 0.
C24_OverwriteNeedsConsent ==
    cmd = "pull" =>
      /\ (outputExists /\ writes # <<>>) =>
           \/ Truthy(Get(values, "force"))
           \/ loc.confirmed = TrueV
      /\ loc.confirmed \in {Cancel, FalseV} =>
           /\ pc = "exited" /\ exitStatus = 0
           /\ writes = <<>>
           /\ GetValueCalls = {}

C24_Witness ==
    /\ cmd = "pull" /\ pc = "exited" /\ outputExists
    /\ "force" \notin DOMAIN values
    /\ loc.confirmed = Cancel
    /\ writes = <<>> /\ GetValueCalls = {}

\* n spaces.
Blank(n) == [i \in 1..n |-> " "]

IsCollection(obj) == obj.t \in {"array", "object"}

OpenBracket(obj)  == IF obj.t = "array" THEN <<"[">> ELSE <<"{">>
CloseBracket(obj) == IF obj.t = "array" THEN <<"]">> ELSE <<"}">>

\* What stands before the i-th child on its line: nothing in an array, the
\* quoted key, a dimmed colon and one space in an object.
KeyPart(obj, i) ==
    IF obj.t = "array" THEN <<>>
    ELSE cyan(<<"\"">> \o obj.keys[i] \o <<"\"">>) \o dim(<<":">>) \o <<" ">>

\* The line of the i-th child of a collection at depth d.
ChildLine(obj, d, i) ==
    Blank(2 * (d + 1)) \o KeyPart(obj, i) \o formatJson(obj.items[i], d + 1)

\* A collection whose children are rendered on one line each.
FlatCollection(obj) ==
    /\ IsCollection(obj) /\ obj.items # <<>>
    /\ \A i \in 1..Len(obj.items) :
         ~IsCollection(obj.items[i]) \/ obj.items[i].items = <<>>

\* C25: an empty array is dimmed "[]" and an empty object dimmed "{}"; a
\* non-empty collection at depth d is an opening bracket, then the children
\* each indented by 2*(d+1) spaces and separated by a dimmed comma and a
\* line feed, then the closing bracket indented by 2*d spaces; a key is
\* quoted and followed by a dimmed colon and one space.
C25_FormatJsonLayout ==
    (fjPc = "done" /\ IsCollection(fjObj)) =>
      LET d == fjIndent
          n == Len(fjObj.items)
          lines == Split(fjResult, "\n")
      IN  /\ n = 0 => fjResult = dim(OpenBracket(fjObj) \o CloseBracket(fjObj))
          /\ n > 0 =>
               fjResult =
                 dim(OpenBracket(fjObj)) \o <<"\n">>
                   \o Join([i \in 1..n |-> ChildLine(fjObj, d, i)],
                           dim(<<",">>) \o <<"\n">>)
                   \o <<"\n">> \o Blank(2 * d) \o dim(CloseBracket(fjObj))
          /\ FlatCollection(fjObj) =>
               /\ Len(lines) = n + 2
               /\ lines[1] = dim(OpenBracket(fjObj))
               /\ lines[n + 2] = Blank(2 * d) \o dim(CloseBracket(fjObj))
               /\ \A i \in 1..n :
                    /\ StartsWith(lines[i + 1], Blank(2 * (d + 1)))
                    /\ lines[i + 1][2 * (d + 1) + 1] # " "
                    /\ EndsWith(lines[i + 1], dim(<<",">>)) <=> i < n

C25_Witness ==
    /\ fjPc = "done" /\ fjIndent = 1
    /\ fjObj = JArray(<<JObject(<<<<"k">>>>,
                                <<JArray(<<Leaf("string", <<"a">>)>>)>>),
                        JArray(<<>>)>>)
    /\ Len(Split(fjResult, "\n")) = 8

\* The positions of a text where a lowercase letter stands right before an
\* uppercase letter.
Transitions(s) == {i \in 1..(Len(s) - 1) : IsLower(s[i]) /\ IsUpper(s[i + 1])}

ThisIsATest == <<"t", "h", "i", "s", "I", "s", "A", "T", "e", "s", "t">>

\* C26: toKebabCase puts a hyphen exactly where a lowercase letter is
\* followed by an uppercase letter and lowercases every character;
\* "thisIsATest" gives "this-is-atest"; a text without such a place is only
\* lowercased.
C26_KebabCase ==
    kcPc = "done" =>
      LET T == Transitions(kcStr)
          at(i) == i + Cardinality({j \in T : j < i})
      IN  /\ Len(kcResult) = Len(kcStr) + Cardinality(T)
          /\ \A i \in 1..Len(kcStr) : kcResult[at(i)] = ToLowerChar(kcStr[i])
          /\ \A j \in T : kcResult[at(j) + 1] = "-"
          /\ kcStr = ThisIsATest =>
               kcResult = <<"t", "h", "i", "s", "-", "i", "s", "-",
                            "a", "t", "e", "s", "t">>
          /\ T = {} => kcResult = [i \in 1..Len(kcStr) |-> ToLowerChar(kcStr[i])]

C26_Witness ==
    /\ kcPc = "done" /\ kcStr = <<"a", "B", "A", "b">>
    /\ kcResult = <<"a", "-", "b", "a", "b">>

FetchSucceeded == \E i \in GetValueCalls : awsCalls[i].exitCode = 0
FetchWasRefused == \E i \in GetValueCalls : awsCalls[i].exitCode # 0

\* C27: pull writes the output file only after get-secret-value has
\* returned exit code 0; when that call fails nothing is written and the
\* run ends with status 1.
C27_WriteAfterFetch ==
    cmd = "pull" =>
      /\ writes # <<>> => FetchSucceeded
      /\ FetchWasRefused =>
           /\ writes = <<>>
           /\ pc = "exited" /\ exitStatus = 1

C27_Witness ==
    /\ cmd = "pull" /\ outputExists /\ loc.confirmed = TrueV
    /\ FetchWasRefused /\ writes = <<>> /\ exitStatus = 1

\* The outro of a set that has saved the secret.
Saved ==
    \E i \in 1..Len(shown) :
      shown[i] = Msg("p.outro", "Secret '" \o loc.secretName
                                  \o "' has been saved to AWS Secrets Manager")

C30_AlwaysWritten ==
    (cmd = "pull" /\ pc = "exited" /\ FetchSucceeded) =>
      /\ Len(writes) = 1
      /\ writes[1].path = loc.outputPath
      /\ writes[1].data =
           generateEnvHeader(loc.secretName) \o "\n"
             \o (IF loc.secretString.isJson /\ ~loc.secretString.nonString
                 THEN ToStr(jsonToEnv(loc.secretString.value))
                 ELSE loc.secretString.raw)
             \o "\n"

\* What the promise is to resolve with: the exit code of the process, or 1
\* when the code is null, and the chunks of each stream in arrival order.
ExpectedValue ==
    [exitCode |-> IF emitted.close[1] = NullCode THEN 1 ELSE emitted.close[1],
     stdout |-> JoinStr(emitted.out, ""),
     stderr |-> JoinStr(emitted.err, "")]

ResolvedOnce ==
    /\ promise.state = "resolved"
    /\ settles = 1
    /\ emitted.close # <<>>
    /\ promise.value = ExpectedValue

\* C29: whatever becomes of the spawned process (it ends, it is ended by a
\* signal, it cannot be started), the promise of exec is eventually
\* resolved, once, with the exit code (1 for a null code) and the
\* concatenated chunks of stdout and stderr.
C29_ExecSettles == <>ResolvedOnce

=============================================================================
